---- MODULE Spec2Model ----
(***************************************************************************)
(* Shared-memory export of gpsd (src/gpsd/shmexport.c): the daemon side    *)
(* (shm_acquire, shm_update) translated from the C source, one action per  *)
(* store, and one subscriber running the read loop of spec section 4.2.    *)
(*                                                                         *)
(* struct shmexport_t is { int bookend1; struct gps_data_t gpsdata;        *)
(* int bookend2; }: bookend1 is the marker laid out before the payload     *)
(* (the "first bookend", lead marker), bookend2 the one laid out after it  *)
(* (the "second bookend", trail marker).                                   *)
(***************************************************************************)
EXTENDS Integers, Sequences, FiniteSets, TLC

\* ---------------------------------------------------------------- bounds
\* shm_update calls made by one daemon process
MaxCalls == 2
\* payload words of struct gps_data_t besides gps_fd
NData == 2
\* distinct snapshots the daemon can publish
NVals == 2
\* largest max_attempts handed to read_snapshot
MaxAttempts == 2
\* daemon restarts on the same key (SpecOrphan only)
MaxGen == 1
MaxEntries == 3     \* entries of an export method table
MaxSpecLen == 4     \* characters of a generated source specification
MaxParses == 2      \* calls of gpsd_source_spec on one buffer
MaxReleases == 3    \* calls of shm_release made on one context
MaxFixes == 2       \* fixes gps_mainloop hands to the hook of gpxlogger
MaxSec == 2         \* latest second a fix of gpxlogger is stamped with

\* ------------------------------------------------------ program constants
SHM_PSEUDO_FD == -1
\* the descriptor the daemon itself holds in gpsdata->gps_fd
DaemonFd == 3
\* position of the daemon before shm_acquire
START == -1
NULL == "NULL"
ATTACHED == "attached"

\* field 0 of the payload is gps_fd, fields 1..NData are the other words
Fields == 0..NData
Vals == 1..NVals
\* the snapshots the daemon hands to shm_update: snapshot x carries x in
\* every word, so that words of two snapshots in one buffer show
GpsData == {[f \in Fields |-> IF f = 0 THEN DaemonFd ELSE x] : x \in Vals}
ZeroData == [f \in Fields |-> 0]
\* a segment as shmget(IPC_CREAT) creates it: zero-filled
ZeroSegment == [bookend1 |-> 0, gpsdata |-> ZeroData, bookend2 |-> 0]

VARIABLES
    \* kernel
    kid,        \* id of the segment bound to the key, 0 when there is none
    seg,        \* contents of that segment (struct shmexport_t)
    \* daemon process
    alive,      \* the daemon process is running
    gen,        \* how many daemon processes were started before this one
    orphan,     \* id of the segment the previous daemon process left behind
    ppc,        \* START, 0 = between calls, k = next step of shm_update
    shmexport,  \* context->shmexport
    shmid,      \* context->shmid
    acq,        \* what shm_acquire returned: "none", "true", "false"
    envfail,    \* the system refused shmget or shmat for lack of resources
    errlog,     \* number of LOG_ERROR messages written
    tick,       \* static int tick of shm_update
    calls,      \* number of shm_update calls of this process
    parg,       \* *gpsdata of the call in progress (or of the last one)
    pdone,      \* the next payload field the struct assignment stores
    stores,     \* the stores of the call in progress, in order
    psteps,     \* steps the call in progress has taken
    oarg,       \* *gpsdata of the call before that one
    \* subscriber
    rpc,        \* "idle", "lead", "copy", "trail"
    rmax,       \* max_attempts of the read_snapshot in progress
    attempts,   \* attempts started by it
    mismatches, \* attempts of it that saw unequal markers
    rsteps,     \* steps it has taken
    v1, v2,     \* the two marker reads of the last attempt
    buf,        \* private local buffer
    rdone,      \* the next payload field to copy into buf
    result,     \* "none", "ok", "timeout"
    rdoneAt,    \* publishes completed when the attempt read the lead marker
    roverlap,   \* a publish was in flight at some point of the attempt
    rpubs,      \* publishes in flight at some point of the call so far
    lastRet     \* tick returned by the last successful read

VARIABLES
    \* gpsdctl: the command line and the environment of the process
    argc,           \* argc of main
    argv1, argv2,   \* argv[1] (action) and argv[2] (device path)
    sockenv,        \* getenv("GPSD_SOCKET"), NULL when unset
    optenv,         \* getenv("GPSD_OPTIONS"), NULL when unset
    euid,           \* geteuid()
    \* gpsdctl: the process
    cpc,            \* the next system call of the tool, or "done"
    control_socket, \* static char *control_socket
    gpsd_options,   \* static char *gpsd_options
    connect,        \* int connect of gpsd_control
    cbuf,           \* char buf[512] of gpsd_control
    sb_mode,        \* sb.st_mode of gpsd_control
    status,         \* what gpsd_control returns
    exitcode,       \* exit status of the tool, -1 while it runs
    \* gpsdctl: what the process has done to the system
    ops,            \* the system calls made, in order
    used,           \* the socket paths handed to access and connect
    launched,       \* the command lines handed to system()
    chmods,         \* the modes handed to chmod()
    sent,           \* the byte strings written to the control socket
    errs            \* the errors logged, by kind

VARIABLES
    \* export method registry
    table,          \* exportmethods[]
    lname,          \* the name export_lookup is called with
    lresult,        \* index of the entry it returned, 0 for NULL
    lcalled,        \* export_lookup has returned
    defres,         \* what export_default returned, -1 before any call
    listing,        \* the lines export_list wrote to its stream
    listed,         \* export_list has returned
    \* gpxlogger: option parsing of main
    gpx,            \* position of gpxlogger's main
    gmethod,        \* struct exportmethod_t *method of main
    gout            \* what main wrote to stderr

VARIABLES
    \* gpsd_source_spec and its caller
    mem,            \* the caller's character buffer, NUL included
    sarg,           \* const char *arg: a position in mem, 0 for NULL
    source,         \* struct fixsource_t *source: server, port, device
    ncalls,         \* calls of gpsd_source_spec made on this buffer
    orig            \* the string the caller put into the buffer

VARIABLES
    \* shm_update as the memory system sees it
    wpc,            \* position in UpdateOrder of the call in progress, 0 if none
    wph,            \* "store" or "barrier": what the publisher does next
    wtick,          \* static int tick
    wcalls,         \* calls of shm_update made
    wpend,          \* stores issued and not yet visible to other processes
    wvis            \* the stores in the order they became visible

VARIABLES
    \* the client that runs: cgps or gpxlogger
    client,         \* "none", "cgps" or "gpxlogger"
    \* cgps
    cgpc,           \* where main of cgps is: a poll point, a call, "exited"
    sig_flag,       \* static int sig_flag of cgps.c
    resize_flag,    \* static int resize_flag
    wait_clicks,    \* int wait_clicks
    ret,            \* int ret: what gps_waiting returned
    died,           \* the argument die was called with, NoDie before
    cclosed,        \* calls of gps_close made by cgps
    cerr,           \* what cgps wrote to stderr
    empties,        \* consecutive waits so far that returned no data
    csince,         \* steps main of cgps took with sig_flag set
    \* gpxlogger
    xpc,            \* where main of gpxlogger is
    xsig_flag,      \* static int sig_flag of gpxlogger.c
    reconnect,      \* bool reconnect
    intrack,        \* bool intrack
    atexits,        \* TRUE once atexit(cleanup) is registered
    footers,        \* calls of print_gpx_footer made
    xclosed,        \* calls of gps_close made by gpxlogger
    xstatus,        \* exit status of gpxlogger, -1 while it runs
    xsince,         \* steps main of gpxlogger took with sig_flag set
    timeout,        \* static time_t timeout, seconds
    minmove,        \* static double minmove, meters
    fix,            \* gpsdata->fix as the hook is handed it
    old_ts_time,    \* static timespec_t old_ts_time
    xfirst,         \* static bool first
    old_lat,        \* static double old_lat, old_lon: the last position
    logfile,        \* what was written to logfile, element by element
    nfixes          \* calls of the hook made

VARIABLES
    \* a context from shm_acquire to shm_release and after
    rel_shmexport,  \* context->shmexport
    rel_shmid,      \* context->shmid
    rel_mapped,     \* TRUE while the segment is attached to the process
    rel_removed,    \* TRUE once the segment is marked for removal
    rel_ops,        \* the system calls made by shm_release, with results
    rel_stores,     \* stores shm_update made through a stale address
    rel_updates,    \* calls of shm_update made
    rel_calls,      \* calls of shm_release made
    rel_alive       \* FALSE once the daemon was killed by a stale store

kvars == <<kid, seg>>
dvars == <<rel_shmexport, rel_shmid, rel_mapped, rel_removed, rel_ops,
           rel_stores, rel_updates, rel_calls, rel_alive>>
lvars == <<client, cgpc, sig_flag, resize_flag, wait_clicks, ret, died, cclosed,
           cerr, empties, csince, xpc, xsig_flag, reconnect, intrack, atexits,
           footers, xclosed, xstatus, xsince, timeout, minmove, fix,
           old_ts_time, xfirst, old_lat, logfile, nfixes>>
\* what gpxlogger keeps about fixes and its output
gpxlog == <<timeout, minmove, fix, old_ts_time, xfirst, old_lat, logfile,
            nfixes>>
pvars == <<alive, gen, orphan, ppc, shmexport, shmid, acq, envfail, errlog, tick,
           calls, parg, pdone, stores, psteps, oarg>>
rvars == <<rpc, rmax, attempts, mismatches, rsteps, v1, v2, buf, rdone, result, rdoneAt,
           lastRet>>
cvars == <<argc, argv1, argv2, sockenv, optenv, euid, cpc, control_socket,
           gpsd_options, connect, cbuf, sb_mode, status, exitcode, ops, used,
           launched, chmods, sent, errs>>
svars == <<mem, sarg, source, ncalls, orig>>
bvars == <<wpc, wph, wtick, wcalls, wpend, wvis>>
evars == <<table, lname, lresult, lcalled, defres, listing, listed, gpx,
           gmethod, gout>>
vars == <<kid, seg, alive, gen, orphan, ppc, shmexport, shmid, acq, envfail, errlog,
          tick, calls, parg, pdone, stores, psteps, oarg,
          rpc, rmax, attempts, mismatches, rsteps, v1, v2, buf, rdone, result, rdoneAt,
          roverlap, rpubs, lastRet, cvars, evars, svars, bvars, lvars, dvars>>
\* what the shared-memory export, the control tool and the registry leave alone
nonshm == <<cvars, evars, svars, bvars, lvars, dvars>>
nonctl == <<kvars, pvars, rvars, roverlap, rpubs, evars, svars, bvars, lvars,
    dvars>>
nonreg == <<kvars, pvars, rvars, roverlap, rpubs, cvars, svars, bvars, lvars,
    dvars>>
nonparse == <<kvars, pvars, rvars, roverlap, rpubs, cvars, evars, bvars, lvars,
    dvars>>
nonbar == <<kvars, pvars, rvars, roverlap, rpubs, cvars, evars, svars, lvars,
    dvars>>
nonclient == <<kvars, pvars, rvars, roverlap, rpubs, cvars, evars, svars, bvars,
    dvars>>
nonrel == <<kvars, pvars, rvars, roverlap, rpubs, cvars, evars, svars, bvars,
    lvars>>

\* ================================================================ daemon

\* shmget as it would behave with IPC_EXCL: an existing segment is an error
ShmGetExcl(k, ok) == IF ~ok \/ k # 0 THEN -1 ELSE 1
\* shmget(key, size, IPC_CREAT|0666): the id of the segment bound to the
\* key when there is one, else the id of a segment created now; -1 when
\* the system refuses.
ShmGet(k, ok) == IF ~ok THEN -1 ELSE IF k # 0 THEN k ELSE 1

\* shm_update without its NULL test
UpdateGuardAlways(p) == TRUE
\* if (NULL != context->shmexport)
UpdateGuard(p) == p # NULL

\* a tick that does not move, a tick that counts down
NextTickSame(t) == t
NextTickDown(t) == t - 1
\* ++tick
NextTick(t) == t + 1

\* other orders of the four stores: the lead marker first and the trail
\* marker last; gps_fd set before the copy; the copy before both markers
UpdateOrderLeadFirst == <<"bookend1", "gpsdata", "gps_fd", "bookend2">>
UpdateOrderFdFirst == <<"bookend2", "gps_fd", "gpsdata", "bookend1">>
UpdateOrderDataFirst == <<"gpsdata", "bookend2", "gps_fd", "bookend1">>
\* gps_fd set after both markers
UpdateOrderFdLast == <<"bookend2", "gpsdata", "bookend1", "gps_fd">>
\* the stores of shm_update in program order (memory_barrier() between
\* them keeps them in this order for every other process)
UpdateOrder == <<"bookend2", "gpsdata", "gps_fd", "bookend1">>

InFlight == ppc \in 1..Len(UpdateOrder)
PStep(what) == alive /\ InFlight /\ UpdateOrder[ppc] = what
AfterStep == IF ppc = Len(UpdateOrder) THEN 0 ELSE ppc + 1
\* a publisher step taken while an attempt is between its two marker reads
Overlap == roverlap \/ rpc \in {"copy", "trail"}

\* what a completed publish of g leaves in the payload
Export(g) == [g EXCEPT ![0] = SHM_PSEUDO_FD]
\* *gpsdata passed to the publish stamped t, for the last two publishes
PassedTo(t) == IF t = tick THEN parg
               ELSE IF t = tick - 1 THEN oarg
               ELSE [f \in Fields |-> -2]
\* payload of the publish stamped t (t = 0: the segment as created)
PayloadOf(t) == IF t = 0 THEN ZeroData ELSE Export(PassedTo(t))
\* publishes this process has completed
Completed == IF ppc \in 1..Len(UpdateOrder) THEN tick - 1 ELSE tick

shm_acquire ==
    /\ alive /\ ppc = START
    /\ \E getok \in BOOLEAN, atok \in BOOLEAN :
         LET id == ShmGet(kid, getok) IN
         IF id = -1
         THEN /\ acq' = "false"
              /\ errlog' = errlog + 1
              /\ envfail' = ~getok
              /\ UNCHANGED <<kid, seg, shmexport, shmid>>
         ELSE /\ kid' = id
              /\ seg' = IF kid = id THEN seg ELSE ZeroSegment
              /\ envfail' = ~atok
              /\ IF atok
                 THEN /\ shmexport' = ATTACHED
                      /\ shmid' = id
                      /\ acq' = "true"
                      /\ errlog' = errlog
                 ELSE /\ shmexport' = NULL
                      /\ acq' = "false"
                      /\ errlog' = errlog + 1
                      /\ UNCHANGED shmid
    /\ ppc' = 0
    /\ UNCHANGED <<alive, gen, orphan, tick, calls, parg, pdone, stores, psteps, oarg>>
    /\ UNCHANGED rvars /\ UNCHANGED roverlap
    /\ UNCHANGED nonshm
    /\ UNCHANGED rpubs

\* entry of shm_update(context, gpsdata): the NULL test and ++tick
shm_update ==
    /\ alive /\ ppc = 0 /\ calls < MaxCalls
    /\ \E g \in GpsData :
         /\ calls' = calls + 1
         /\ IF UpdateGuard(shmexport)
            THEN /\ tick' = NextTick(tick)
                 /\ parg' = g
                 /\ oarg' = parg
                 /\ ppc' = 1
                 /\ pdone' = 0
                 /\ stores' = <<>>
                 /\ psteps' = 1
                 /\ roverlap' = Overlap
                 /\ rpubs' = IF rpc # "idle" THEN rpubs + 1 ELSE rpubs
            ELSE UNCHANGED <<tick, parg, oarg, ppc, pdone, stores, psteps,
                             roverlap, rpubs>>
    /\ UNCHANGED <<alive, gen, orphan, shmexport, shmid, acq, envfail, errlog>>
    /\ UNCHANGED kvars /\ UNCHANGED rvars
    /\ UNCHANGED nonshm

\* shared->bookend2 = tick; memory_barrier();
StoreBookend2 ==
    /\ PStep("bookend2")
    /\ seg' = [seg EXCEPT !.bookend2 = tick]
    /\ stores' = Append(stores, "bookend2")
    /\ ppc' = AfterStep
    /\ psteps' = psteps + 1
    /\ roverlap' = Overlap
    /\ UNCHANGED <<kid, alive, gen, orphan, shmexport, shmid, acq, envfail, errlog,
                   tick, calls, parg, pdone, oarg>>
    /\ UNCHANGED rvars
    /\ UNCHANGED nonshm
    /\ UNCHANGED rpubs

\* shared->gpsdata = *gpsdata; memory_barrier();   the structure assignment
\* stores one field at a time, from the first to the last
StoreGpsdata ==
    /\ PStep("gpsdata")
    /\ seg' = [seg EXCEPT !.gpsdata[pdone] = parg[pdone]]
    /\ IF pdone = NData
       THEN pdone' = 0 /\ ppc' = AfterStep
       ELSE pdone' = pdone + 1 /\ ppc' = ppc
    /\ stores' = Append(stores, "gpsdata")
    /\ psteps' = psteps + 1
    /\ roverlap' = Overlap
    /\ UNCHANGED <<kid, alive, gen, orphan, shmexport, shmid, acq, envfail, errlog,
                   tick, calls, parg, oarg>>
    /\ UNCHANGED rvars
    /\ UNCHANGED nonshm
    /\ UNCHANGED rpubs

\* shared->gpsdata.gps_fd = SHM_PSEUDO_FD; memory_barrier();
StoreGpsFd ==
    /\ PStep("gps_fd")
    /\ seg' = [seg EXCEPT !.gpsdata[0] = SHM_PSEUDO_FD]
    /\ stores' = Append(stores, "gps_fd")
    /\ ppc' = AfterStep
    /\ psteps' = psteps + 1
    /\ roverlap' = Overlap
    /\ UNCHANGED <<kid, alive, gen, orphan, shmexport, shmid, acq, envfail, errlog,
                   tick, calls, parg, pdone, oarg>>
    /\ UNCHANGED rvars
    /\ UNCHANGED nonshm
    /\ UNCHANGED rpubs

\* a last store that waits until no subscriber is copying the payload
StoreBookend1Waits ==
    /\ PStep("bookend1") /\ rpc # "copy"
    /\ seg' = [seg EXCEPT !.bookend1 = tick]
    /\ stores' = Append(stores, "bookend1")
    /\ ppc' = AfterStep
    /\ psteps' = psteps + 1
    /\ roverlap' = Overlap
    /\ UNCHANGED <<kid, alive, gen, orphan, shmexport, shmid, acq, envfail,
                   errlog, tick, calls, parg, pdone, oarg>>
    /\ UNCHANGED rvars
    /\ UNCHANGED nonshm
    /\ UNCHANGED rpubs

\* shared->bookend1 = tick;
StoreBookend1 ==
    /\ PStep("bookend1")
    /\ seg' = [seg EXCEPT !.bookend1 = tick]
    /\ stores' = Append(stores, "bookend1")
    /\ ppc' = AfterStep
    /\ psteps' = psteps + 1
    /\ roverlap' = Overlap
    /\ UNCHANGED <<kid, alive, gen, orphan, shmexport, shmid, acq, envfail, errlog,
                   tick, calls, parg, pdone, oarg>>
    /\ UNCHANGED rvars
    /\ UNCHANGED nonshm
    /\ UNCHANGED rpubs

\* the daemon process dies (crash or kill) without calling shm_release
Crash ==
    /\ alive /\ ppc # START
    /\ alive' = FALSE
    /\ UNCHANGED <<gen, orphan, ppc, shmexport, shmid, acq, envfail, errlog, tick,
                   calls, parg, pdone, stores, psteps, oarg>>
    /\ UNCHANGED kvars /\ UNCHANGED rvars /\ UNCHANGED roverlap
    /\ UNCHANGED nonshm
    /\ UNCHANGED rpubs

\* a fresh daemon process is started on the same key after the previous
\* one died: its context and its static tick start over, the segment stays
Restart ==
    /\ ~alive /\ gen < MaxGen
    /\ alive' = TRUE /\ gen' = gen + 1 /\ orphan' = kid
    /\ ppc' = START
    /\ shmexport' = NULL /\ shmid' = -1 /\ acq' = "none"
    /\ envfail' = FALSE /\ errlog' = 0
    /\ tick' = 0 /\ calls' = 0
    /\ parg' = ZeroData /\ oarg' = ZeroData
    /\ pdone' = 0 /\ stores' = <<>> /\ psteps' = 0
    /\ UNCHANGED kvars /\ UNCHANGED rvars /\ UNCHANGED roverlap
    /\ UNCHANGED nonshm
    /\ UNCHANGED rpubs

\* ============================================================ subscriber

\* a subscriber that does not compare the markers
AcceptAlways(a, b) == TRUE
AcceptNever(a, b) == FALSE
\* step 4 of the read loop: accept when the two marker reads agree
Accept(a, b) == a = b

\* read_snapshot(max_attempts), on a segment the subscriber could attach
read_snapshot ==
    /\ rpc = "idle" /\ kid # 0
    /\ \E m \in 1..MaxAttempts : rmax' = m
    /\ attempts' = 0
    /\ mismatches' = 0
    /\ rsteps' = 0
    /\ result' = "none"
    /\ rpc' = "lead"
    /\ rpubs' = IF InFlight THEN 1 ELSE 0
    /\ UNCHANGED <<v1, v2, buf, rdone, rdoneAt, roverlap, lastRet>>
    /\ UNCHANGED kvars /\ UNCHANGED pvars
    /\ UNCHANGED nonshm

\* 1. read lead_marker into v1
ReadLead ==
    /\ rpc = "lead"
    /\ attempts' = attempts + 1
    /\ v1' = seg.bookend1
    /\ rdone' = 0
    /\ rdoneAt' = Completed
    /\ roverlap' = (ppc # 0)
    /\ rpc' = "copy"
    /\ rsteps' = rsteps + 1
    /\ UNCHANGED <<rmax, mismatches, v2, buf, result, lastRet>>
    /\ UNCHANGED kvars /\ UNCHANGED pvars
    /\ UNCHANGED nonshm
    /\ UNCHANGED rpubs

\* 2. copy the payload field into the private buffer, one field at a time
\* from the first to the last
ReadPayload ==
    /\ rpc = "copy"
    /\ buf' = [buf EXCEPT ![rdone] = seg.gpsdata[rdone]]
    /\ IF rdone = NData
       THEN rdone' = 0 /\ rpc' = "trail"
       ELSE rdone' = rdone + 1 /\ rpc' = rpc
    /\ rsteps' = rsteps + 1
    /\ UNCHANGED <<rmax, attempts, mismatches, v1, v2, result, rdoneAt,
                   roverlap, lastRet>>
    /\ UNCHANGED kvars /\ UNCHANGED pvars
    /\ UNCHANGED nonshm
    /\ UNCHANGED rpubs

\* 3. read trail_marker into v2;  4. accept, retry or time out
ReadTrail ==
    /\ rpc = "trail"
    /\ v2' = seg.bookend2
    /\ IF Accept(v1, seg.bookend2)
       THEN /\ result' = "ok"
            /\ rpc' = "idle"
            /\ lastRet' = v1
            /\ mismatches' = mismatches
       ELSE /\ mismatches' = mismatches + 1
            /\ IF attempts < rmax
               THEN result' = result /\ rpc' = "lead"
               ELSE result' = "timeout" /\ rpc' = "idle"
            /\ UNCHANGED lastRet
    /\ rsteps' = rsteps + 1
    /\ rpubs' = IF rpc' = "idle" THEN 0 ELSE rpubs
    /\ UNCHANGED <<rmax, attempts, v1, buf, rdone, rdoneAt, roverlap>>
    /\ UNCHANGED kvars /\ UNCHANGED pvars
    /\ UNCHANGED nonshm

\* ========================================================= specifications

ShmInit ==
    /\ kid = 0 /\ seg = ZeroSegment
    /\ alive = TRUE /\ gen = 0 /\ orphan = 0 /\ ppc = START
    /\ shmexport = NULL /\ shmid = -1 /\ acq = "none"
    /\ envfail = FALSE /\ errlog = 0
    /\ tick = 0 /\ calls = 0
    /\ parg = ZeroData /\ pdone = 0 /\ stores = <<>> /\ psteps = 0
    /\ oarg = ZeroData
    /\ rpc = "idle" /\ rmax = 1 /\ attempts = 0 /\ mismatches = 0
    /\ rsteps = 0 /\ v1 = 0 /\ v2 = 0
    /\ buf = ZeroData /\ rdone = 0 /\ result = "none"
    /\ rdoneAt = 0 /\ roverlap = FALSE /\ rpubs = 0 /\ lastRet = 0

\* the control tool not started, the registry not consulted
CtlIdle ==
    /\ argc = 1 /\ argv1 = "" /\ argv2 = "" /\ sockenv = NULL /\ optenv = NULL
    /\ euid = 0 /\ cpc = "done" /\ control_socket = "" /\ gpsd_options = ""
    /\ connect = -1 /\ cbuf = "" /\ sb_mode = {} /\ status = 0
    /\ exitcode = -1 /\ ops = <<>> /\ used = <<>> /\ launched = <<>>
    /\ chmods = <<>> /\ sent = <<>> /\ errs = <<>>
RegIdle ==
    /\ table = <<>> /\ lname = "" /\ lresult = 0 /\ lcalled = FALSE
    /\ defres = -1 /\ listing = <<>> /\ listed = FALSE
    /\ gpx = "exit_success" /\ gmethod = 0 /\ gout = <<>>

\* no buffer handed to gpsd_source_spec
ParseIdle ==
    /\ mem = <<"NUL">> /\ sarg = 0 /\ ncalls = 0 /\ orig = <<>>
    /\ source = [server |-> 0, port |-> 0, device |-> 0]

\* no call of shm_update made, nothing in the store buffer
BarIdle ==
    /\ wpc = 0 /\ wph = "store" /\ wtick = 0 /\ wcalls = 0
    /\ wpend = {} /\ wvis = <<>>

\* a context as the daemon sets it up: no segment, nothing released
RelIdle ==
    /\ rel_shmexport = NULL /\ rel_shmid = -1 /\ rel_mapped = FALSE
    /\ rel_removed = FALSE /\ rel_ops = <<>> /\ rel_stores = 0
    /\ rel_updates = 0 /\ rel_calls = 0 /\ rel_alive = TRUE

\* a timespec_t, the zero a static one starts with, and the fix of a
\* gps_data_t no report has filled
Ts(sec, nsec) == [tv_sec |-> sec, tv_nsec |-> nsec]
TsZero == Ts(0, 0)
NoFix == [time |-> TsZero, mode |-> 0, latitude |-> 0]

\* neither cgps nor gpxlogger started
NoDie == 99
ClientIdle ==
    /\ client = "none"
    /\ cgpc = "exited" /\ sig_flag = 0 /\ resize_flag = 0 /\ wait_clicks = 0
    /\ ret = 0 /\ died = NoDie /\ cclosed = 0 /\ cerr = <<>> /\ empties = 0
    /\ csince = 0
    /\ xpc = "exited" /\ xsig_flag = 0 /\ reconnect = FALSE /\ intrack = FALSE
    /\ atexits = FALSE /\ footers = 0 /\ xclosed = 0 /\ xstatus = -1
    /\ xsince = 0
    /\ timeout = 5 /\ minmove = 0 /\ fix = NoFix /\ old_ts_time = TsZero
    /\ xfirst = TRUE /\ old_lat = 0 /\ logfile = <<>> /\ nfixes = 0

Init == ShmInit /\ CtlIdle /\ RegIdle /\ ParseIdle /\ BarIdle /\ ClientIdle /\ RelIdle

PubStep == StoreBookend2 \/ StoreGpsdata \/ StoreGpsFd \/ StoreBookend1
RNext == read_snapshot \/ ReadLead \/ ReadPayload \/ ReadTrail

Next == \/ shm_acquire
        \/ shm_update
        \/ StoreBookend2
        \/ StoreGpsdata
        \/ StoreGpsFd
        \/ StoreBookend1
        \/ Crash
        \/ read_snapshot
        \/ ReadLead
        \/ ReadPayload
        \/ ReadTrail

Spec == Init /\ [][Next]_vars

\* daemon processes following one another on the same key
NextOrphan == \/ shm_acquire
              \/ shm_update
              \/ StoreBookend2
              \/ StoreGpsdata
              \/ StoreGpsFd
              \/ StoreBookend1
              \/ Crash
              \/ Restart

SpecOrphan == Init /\ [][NextOrphan]_vars

TypeOK ==
    /\ kid \in 0..1
    /\ ppc \in {START} \cup (0..Len(UpdateOrder))
    /\ tick \in 0..MaxCalls /\ calls \in 0..MaxCalls
    /\ rpc \in {"idle", "lead", "copy", "trail"}
    /\ attempts \in 0..MaxAttempts

\* ================================================================= claims

\* the stores of one shm_update when the marker `first` is stored first
\* and the marker `last` last, the payload in between
StoreSequence(first, last) ==
    <<first>> \o [i \in 1..(NData + 1) |-> "gpsdata"] \o <<"gps_fd", last>>
IsPrefix(s, t) == Len(s) <= Len(t) /\ \A i \in 1..Len(s) : s[i] = t[i]
MarkerStores == Cardinality({i \in 1..Len(stores) :
                                stores[i] \in {"bookend1", "bookend2"}})

\* C1 - torn-read detection: an attempt (lead marker, payload, trail marker)
\* that accepts returns in its buffer exactly the payload of the publish
\* stamped with the tick it read, and that publish had completed before the
\* attempt read the lead marker; every other attempt reports a mismatch.
TornReadDetection ==
    [][(rpc = "trail" /\ result' = "ok")
         => (buf = PayloadOf(v1) /\ rdoneAt >= v1 /\ v1 = v2')]_vars
\* an attempt that a publish overlapped and that still accepted
TornReadWitness ==
    /\ result = "ok" /\ roverlap /\ v1 = 1 /\ tick = 2
    /\ oarg # parg /\ buf = Export(oarg)

\* C2 (as stated) - the first store of a publish goes to the lead marker
\* bookend1, the payload follows, the last store goes to the trail marker
\* bookend2.
WriteOrderLeadFirst ==
    IsPrefix(stores, StoreSequence("bookend1", "bookend2"))
\* C2 (amended) - the first store of a publish is the tick into the trail
\* marker bookend2, then the payload is stored (gps_fd overwritten after the
\* copy), and the last store is the same tick into the lead marker bookend1.
WriteOrderTrailFirst ==
    /\ IsPrefix(stores, StoreSequence("bookend2", "bookend1"))
    /\ (InFlight /\ Len(stores) >= 1 => seg.bookend2 = tick)
    /\ (Len(stores) = NData + 4 => seg.bookend1 = tick /\ ppc = 0)
WriteOrderWitness ==
    Len(stores) = NData + 4 /\ tick = 2 /\ ppc = 0

\* C3 - segment invariant: when the markers are equal the payload is wholly
\* the payload of the publish stamped with that tick (the created contents
\* for tick 0) and no store of a publish has touched the segment since;
\* when they differ a publish is in flight.
SegmentInvariant ==
    /\ seg.bookend1 = seg.bookend2
         => /\ seg.gpsdata = PayloadOf(seg.bookend1)
            /\ (InFlight => stores = <<>>)
    /\ seg.bookend1 # seg.bookend2 => InFlight
SegmentWitness ==
    /\ seg.bookend1 = 1 /\ seg.bookend2 = 1 /\ tick = 2 /\ InFlight
    /\ oarg # parg /\ seg.gpsdata = Export(oarg)

\* C4 (as stated) - an attempt that no publish overlaps, begun after a
\* publish completed, accepts at once and returns the very *gpsdata passed
\* to that publish together with its tick.
ReadAfterWriteExact ==
    [][(rpc = "trail" /\ rpc' # "trail" /\ ~roverlap /\ rdoneAt >= 1)
         => (result' = "ok" /\ rpc' = "idle" /\ v1 = tick /\ buf = parg)]_vars
\* C4 (amended) - such an attempt accepts at once and returns the tick of
\* that publish and the payload passed to it with gps_fd replaced by
\* SHM_PSEUDO_FD.
ReadAfterWrite ==
    [][(rpc = "trail" /\ rpc' # "trail" /\ ~roverlap /\ rdoneAt >= 1)
         => /\ result' = "ok" /\ rpc' = "idle"
            /\ v1 = tick /\ v1 = rdoneAt
            /\ buf = Export(parg)]_vars
ReadAfterWriteWitness ==
    result = "ok" /\ ~roverlap /\ attempts = 1 /\ v1 = 2 /\ buf = Export(parg)

\* C5 - tick monotonicity: the tick returned by a successful read is never
\* smaller than the tick returned by the successful read before it.
TickMonotonic == [][lastRet' >= lastRet]_vars
TickMonotonicWitness ==
    result = "ok" /\ lastRet = 2 /\ v1 = 2 /\ tick = 2

\* C6 - bounded subscriber retry: read_snapshot(max_attempts) starts at most
\* max_attempts attempts of NData + 3 steps each and can always take its
\* next step; it returns a payload only when the two marker reads of the
\* attempt were equal, Timeout exactly when max_attempts attempts saw
\* unequal markers; no step of it changes the segment.
ReadFinished == rpc = "idle" /\ attempts >= 1
ReadInvariant ==
    /\ attempts <= rmax /\ mismatches <= attempts
    /\ rsteps <= rmax * (NData + 3)
    /\ (rpc # "idle" => result = "none" /\ ENABLED RNext)
    /\ (result = "ok" => ReadFinished /\ v1 = v2)
    /\ (result = "timeout" => ReadFinished /\ v1 # v2)
    /\ (ReadFinished => (result = "timeout" <=> mismatches = rmax))
    /\ (ReadFinished => result \in {"ok", "timeout"})
BoundedRetry ==
    [][ReadInvariant' /\ (rvars' # rvars => seg' = seg /\ kid' = kid)]_vars
BoundedRetryWitness ==
    result = "timeout" /\ rmax = 2 /\ attempts = 2 /\ mismatches = 2

\* C7 - publishing disabled after attach failure: once shm_acquire has
\* returned false no step of the process changes a marker, a payload field
\* or the tick counter, and nothing more is logged as an error.
PublishingDisabled ==
    [][acq = "false"
         => (seg' = seg /\ kid' = kid /\ tick' = tick /\ errlog' = errlog
             /\ ppc' = 0)]_vars
PublishingDisabledWitness ==
    acq = "false" /\ kid = 1 /\ calls >= 2 /\ tick = 0 /\ errlog = 1

\* C8 - crash mid-publish: when the daemon has died after the first marker
\* store of a publish and before the last one, the two markers are unequal
\* and every attempt that ends from then on reports a mismatch.
CrashedMid == ~alive /\ InFlight /\ MarkerStores = 1
CrashMidPublish ==
    [][CrashedMid
         => /\ seg.bookend1 # seg.bookend2
            /\ seg'.bookend1 # seg'.bookend2
            /\ (rpc = "trail" => result' # "ok" /\ mismatches' = mismatches + 1)
       ]_vars
CrashMidPublishWitness ==
    CrashedMid /\ result = "timeout" /\ v2 = tick /\ v1 = tick - 1 /\ tick = 2

\* C9 - the publisher never waits: a call in progress can always take its
\* next store whatever the subscriber is doing, a new call can always be
\* entered, and a call is complete after NData + 5 steps of its own.
PublisherNeverWaits ==
    /\ (alive /\ InFlight => ENABLED PubStep)
    /\ (alive /\ ppc = 0 /\ calls < MaxCalls => ENABLED shm_update)
    /\ (InFlight => psteps < NData + 5)
    /\ (ppc = 0 /\ tick >= 1 => psteps = NData + 5)
PublisherNeverWaitsWitness ==
    ppc = 0 /\ tick = 2 /\ psteps = NData + 5 /\ rpc = "copy" /\ rdone = 1
    /\ v1 = 1

BufSize == 512              \* char buf[512]
GPS_PATH_MAX == 128         \* gps.h
EXIT_SUCCESS == 0
EXIT_FAILURE == 1
SockFd == 4                 \* a descriptor netlib_localsocket can return
DEFAULT_GPSD_SOCKET == "/run/gpsd.sock"
DEFAULT_GPSD_TEST_SOCKET == "/tmp/gpsd.sock"

RECURSIVE Pad(_)
\* a string of n characters
Pad(n) ==
    IF n = 0 THEN ""
    ELSE IF n % 2 = 1 THEN "x" \o Pad(n - 1)
    ELSE LET half == Pad(n \div 2) IN half \o half

Dev127 == "/dev/" \o Pad(GPS_PATH_MAX - 6)
Dev128 == "/dev/" \o Pad(GPS_PATH_MAX - 5)
Dev600 == "/dev/" \o Pad(595)
LongSock == "/tmp/" \o Pad(595)
LongOpts == "-D " \o Pad(517)

\* the command lines and environments the tool is run with
Argcs == 2..4
ActionArgs == {"add", "remove", "ad", "foo", "removeit"}
PathArgs == {"/dev/ttyUSB0", Dev127, Dev128, Dev600}
SockEnvs == {NULL, "/tmp/alt.sock", LongSock}
OptEnvs == {NULL, "-n -b", LongOpts}
Euids == {0, 1000}
\* st_mode values: of the device when stat succeeded, whatever the stack held
\* when it failed
Modes == {{}, {"S_IRUSR", "S_IWUSR"}, {"S_IXUSR", "S_IROTH"}}
GroupBits == {"S_IRUSR", "S_IWUSR", "S_IRGRP", "S_IWGRP"}
\* what the daemon may answer
Replies == {"", "OK\n", "ERROR\n", "ERROR: no such device\n"}
AckSize == 12               \* read(connect, buf, 12)

\* snprintf(buf, sizeof(buf), ...): at most sizeof(buf) - 1 bytes are kept
Snprintf(str) == IF Len(str) < BufSize THEN str ELSE SubSeq(str, 1, BufSize - 1)

LaunchCommandNoSocket(options, socket) == Snprintf("gpsd " \o options)

LaunchCommand(options, socket) == Snprintf("gpsd " \o options \o " -F " \o socket)

ControlCommandLf(sign, argument) == Snprintf(sign \o argument \o "\n")

ControlCommand(sign, argument) == Snprintf(sign \o argument \o "\r\n")

ResolveSocketNoEnv(env, uid) ==
    IF uid # 0 THEN DEFAULT_GPSD_TEST_SOCKET ELSE DEFAULT_GPSD_SOCKET

ResolveSocket(env, uid) ==
    IF env # NULL THEN env
    ELSE IF uid # 0 THEN DEFAULT_GPSD_TEST_SOCKET
    ELSE DEFAULT_GPSD_SOCKET

ResolveOptions(env) == IF env # NULL THEN env ELSE ""

ArgErrorLax(n, action, path) ==
    IF n # 3 THEN "usage"
    ELSE IF 3 > Len(action) THEN "action"
    ELSE ""

\* main's checks of the command line: the error logged, "" when it passes
ArgError(n, action, path) ==
    IF 3 # n THEN "usage"
    ELSE IF 3 > Len(action) \/ 7 < Len(action) THEN "action"
    ELSE IF GPS_PATH_MAX <= Len(path) THEN "path"
    ELSE ""

Call(name, rc) == [call |-> name, rc |-> rc]

\* return -1 from gpsd_control, then exit(EXIT_FAILURE) in main
FailWith(kind) ==
    /\ errs' = Append(errs, kind)
    /\ status' = -1
    /\ exitcode' = EXIT_FAILURE
    /\ cpc' = "done"
    /\ UNCHANGED cbuf

ProbeFailedLaunchAny ==
    /\ cbuf' = LaunchCommand(gpsd_options, control_socket)
    /\ cpc' = "system"
    /\ UNCHANGED <<errs, status, exitcode>>

\* lines 39-53 once the probe of lines 36-37 has failed
ProbeFailed ==
    IF argv1 = "add"
    THEN /\ cbuf' = LaunchCommand(gpsd_options, control_socket)
         /\ cpc' = "system"
         /\ UNCHANGED <<errs, status, exitcode>>
    ELSE FailWith("reach")

DispatchLeak ==
    IF argv1 = "add"
    THEN /\ cpc' = "stat"
         /\ UNCHANGED <<cbuf, errs, status, exitcode>>
    ELSE IF argv1 = "remove"
    THEN /\ cbuf' = ControlCommand("-", argv2)
         /\ cpc' = "write"
         /\ UNCHANGED <<errs, status, exitcode>>
    ELSE FailWith("unknown")

\* lines 64-86 up to the next system call, with a live connection
Dispatch ==
    IF argv1 = "add"
    THEN /\ cpc' = "stat"
         /\ UNCHANGED <<cbuf, errs, status, exitcode>>
    ELSE IF argv1 = "remove"
    THEN /\ cbuf' = ControlCommand("-", argv2)
         /\ cpc' = "write"
         /\ UNCHANGED <<errs, status, exitcode>>
    ELSE /\ errs' = Append(errs, "unknown")
         /\ status' = -1
         /\ cpc' = "close"
         /\ UNCHANGED <<cbuf, exitcode>>

\* exit(EXIT_FAILURE) of main's command-line checks
Reject(kind) ==
    /\ errs' = Append(errs, kind)
    /\ exitcode' = EXIT_FAILURE
    /\ cpc' = "done"
    /\ UNCHANGED <<cbuf, status, control_socket, gpsd_options>>

main ==
    /\ cpc = "main"
    /\ IF ArgError(argc, argv1, argv2) # ""
       THEN Reject(ArgError(argc, argv1, argv2))
       ELSE /\ control_socket' = ResolveSocket(sockenv, euid)
            /\ gpsd_options' = ResolveOptions(optenv)
            /\ errs' = Append(errs, "gpsd_control")
            /\ cpc' = "access"
            /\ UNCHANGED <<cbuf, status, exitcode>>
    /\ UNCHANGED <<argc, argv1, argv2, sockenv, optenv, euid, connect, sb_mode,
                   ops, used, launched, chmods, sent>>
    /\ UNCHANGED nonctl

access_probe ==
    /\ cpc = "access"
    /\ \E rc \in {0, -1} :
        /\ ops' = Append(ops, Call("access", rc))
        /\ used' = Append(used, control_socket)
        /\ IF rc = 0
           THEN cpc' = "connect" /\ UNCHANGED <<cbuf, errs, status, exitcode>>
           ELSE ProbeFailed
    /\ UNCHANGED <<argc, argv1, argv2, sockenv, optenv, euid, control_socket,
                   gpsd_options, connect, sb_mode, launched, chmods, sent>>
    /\ UNCHANGED nonctl

connect_probe ==
    /\ cpc = "connect"
    /\ \E fd \in {SockFd, -1} :
        /\ ops' = Append(ops, Call("connect", fd))
        /\ used' = Append(used, control_socket)
        /\ connect' = fd
        /\ IF 0 <= fd THEN Dispatch ELSE ProbeFailed
    /\ UNCHANGED <<argc, argv1, argv2, sockenv, optenv, euid, control_socket,
                   gpsd_options, sb_mode, launched, chmods, sent>>
    /\ UNCHANGED nonctl

system_launch ==
    /\ cpc = "system"
    /\ \E rc \in {0, 1} :
        /\ ops' = Append(ops, Call("system", rc))
        /\ launched' = Append(launched, cbuf)
        /\ IF rc # 0
           THEN FailWith("launch")
           ELSE cpc' = "access2" /\ UNCHANGED <<cbuf, errs, status, exitcode>>
    /\ UNCHANGED <<argc, argv1, argv2, sockenv, optenv, euid, control_socket,
                   gpsd_options, connect, sb_mode, used, chmods, sent>>
    /\ UNCHANGED nonctl

access_retry ==
    /\ cpc = "access2"
    /\ \E rc \in {0, -1} :
        /\ ops' = Append(ops, Call("access", rc))
        /\ used' = Append(used, control_socket)
        /\ IF rc = 0
           THEN cpc' = "connect2" /\ UNCHANGED <<cbuf, errs, status, exitcode>>
           ELSE FailWith("reach")
    /\ UNCHANGED <<argc, argv1, argv2, sockenv, optenv, euid, control_socket,
                   gpsd_options, connect, sb_mode, launched, chmods, sent>>
    /\ UNCHANGED nonctl

connect_retryUnchecked ==
    /\ cpc = "connect2"
    /\ \E fd \in {SockFd, -1} :
        /\ ops' = Append(ops, Call("connect", fd))
        /\ used' = Append(used, control_socket)
        /\ connect' = fd
        /\ Dispatch
    /\ UNCHANGED <<argc, argv1, argv2, sockenv, optenv, euid, control_socket,
                   gpsd_options, sb_mode, launched, chmods, sent>>
    /\ UNCHANGED nonctl

connect_retry ==
    /\ cpc = "connect2"
    /\ \E fd \in {SockFd, -1} :
        /\ ops' = Append(ops, Call("connect", fd))
        /\ used' = Append(used, control_socket)
        /\ connect' = fd
        /\ IF 0 > fd THEN FailWith("reach") ELSE Dispatch
    /\ UNCHANGED <<argc, argv1, argv2, sockenv, optenv, euid, control_socket,
                   gpsd_options, sb_mode, launched, chmods, sent>>
    /\ UNCHANGED nonctl


stat_device ==
    /\ cpc = "stat"
    /\ \E rc \in {0, -1}, mode \in Modes :
        /\ ops' = Append(ops, Call("stat", rc))
        /\ sb_mode' = mode
        /\ IF rc # 1
           THEN cpc' = "chmod" /\ UNCHANGED cbuf
           ELSE cpc' = "write" /\ cbuf' = ControlCommand("+", argv2)
    /\ UNCHANGED <<argc, argv1, argv2, sockenv, optenv, euid, control_socket,
                   gpsd_options, connect, status, exitcode, used, launched,
                   chmods, sent, errs>>
    /\ UNCHANGED nonctl

chmod_deviceFatal ==
    /\ cpc = "chmod"
    /\ \E rc \in {0, -1} :
        /\ ops' = Append(ops, Call("chmod", rc))
        /\ chmods' = Append(chmods, sb_mode \cup GroupBits)
        /\ IF rc = 0
           THEN /\ cbuf' = ControlCommand("+", argv2)
                /\ cpc' = "write"
                /\ UNCHANGED <<status, exitcode, errs>>
           ELSE FailWith("chmod")
    /\ UNCHANGED <<argc, argv1, argv2, sockenv, optenv, euid, control_socket,
                   gpsd_options, connect, sb_mode, used, launched, sent>>
    /\ UNCHANGED nonctl

chmod_device ==
    /\ cpc = "chmod"
    /\ \E rc \in {0, -1} :
        /\ ops' = Append(ops, Call("chmod", rc))
        /\ chmods' = Append(chmods, sb_mode \cup GroupBits)
    /\ cbuf' = ControlCommand("+", argv2)
    /\ cpc' = "write"
    /\ UNCHANGED <<argc, argv1, argv2, sockenv, optenv, euid, control_socket,
                   gpsd_options, connect, sb_mode, status, exitcode, used,
                   launched, sent, errs>>
    /\ UNCHANGED nonctl

\* write(connect, buf, strlen(buf)) on a stream socket: all of it or an error
write_command ==
    /\ cpc = "write"
    /\ \E rc \in {Len(cbuf), -1} :
        /\ ops' = Append(ops, Call("write", rc))
        /\ sent' = IF rc >= 0 THEN Append(sent, cbuf) ELSE sent
        /\ status' = rc
    /\ cpc' = "read"
    /\ UNCHANGED <<argc, argv1, argv2, sockenv, optenv, euid, control_socket,
                   gpsd_options, connect, cbuf, sb_mode, exitcode, used,
                   launched, chmods, errs>>
    /\ UNCHANGED nonctl

\* a read whose failure is taken for the failure of the command
read_ackChecked ==
    /\ cpc = "read"
    /\ \/ \E r \in Replies :
            LET got == IF Len(r) <= AckSize THEN r ELSE SubSeq(r, 1, AckSize)
            IN  /\ ops' = Append(ops, Call("read", Len(got)))
                /\ cbuf' = got \o SubSeq(cbuf, Len(got) + 1, Len(cbuf))
                /\ UNCHANGED status
       \/ /\ ops' = Append(ops, Call("read", -1))
          /\ status' = -1
          /\ UNCHANGED cbuf
    /\ cpc' = "close"
    /\ UNCHANGED <<argc, argv1, argv2, sockenv, optenv, euid, control_socket,
                   gpsd_options, connect, sb_mode, exitcode, used,
                   launched, chmods, sent, errs>>
    /\ UNCHANGED nonctl

\* read(connect, buf, 12): the answer, if any, lands on the front of buf and
\* is looked at by nobody
read_ack ==
    /\ cpc = "read"
    /\ \/ \E r \in Replies :
            LET got == IF Len(r) <= AckSize THEN r ELSE SubSeq(r, 1, AckSize)
            IN  /\ ops' = Append(ops, Call("read", Len(got)))
                /\ cbuf' = got \o SubSeq(cbuf, Len(got) + 1, Len(cbuf))
       \/ /\ ops' = Append(ops, Call("read", -1))
          /\ UNCHANGED cbuf
    /\ cpc' = "close"
    /\ UNCHANGED <<argc, argv1, argv2, sockenv, optenv, euid, control_socket,
                   gpsd_options, connect, sb_mode, status, exitcode, used,
                   launched, chmods, sent, errs>>
    /\ UNCHANGED nonctl

close_socketLax ==
    /\ cpc = "close"
    /\ ops' = Append(ops, Call("close", 0))
    /\ exitcode' = EXIT_SUCCESS
    /\ cpc' = "done"
    /\ UNCHANGED <<argc, argv1, argv2, sockenv, optenv, euid, control_socket,
                   gpsd_options, connect, cbuf, sb_mode, status, used,
                   launched, chmods, sent, errs>>
    /\ UNCHANGED nonctl

\* close(connect), return status, and main's exit
close_socket ==
    /\ cpc = "close"
    /\ ops' = Append(ops, Call("close", 0))
    /\ exitcode' = IF 0 > status THEN EXIT_FAILURE ELSE EXIT_SUCCESS
    /\ cpc' = "done"
    /\ UNCHANGED <<argc, argv1, argv2, sockenv, optenv, euid, control_socket,
                   gpsd_options, connect, cbuf, sb_mode, status, used,
                   launched, chmods, sent, errs>>
    /\ UNCHANGED nonctl

\* the process as exec leaves it
InitCtl ==
    /\ ShmInit /\ RegIdle /\ ParseIdle /\ BarIdle /\ ClientIdle /\ RelIdle
    /\ argc \in Argcs /\ argv1 \in ActionArgs /\ argv2 \in PathArgs
    /\ sockenv \in SockEnvs /\ optenv \in OptEnvs /\ euid \in Euids
    /\ cpc = "main"
    /\ control_socket = DEFAULT_GPSD_SOCKET /\ gpsd_options = ""
    /\ connect = -1 /\ cbuf = "" /\ sb_mode = {} /\ status = 0
    /\ exitcode = -1 /\ ops = <<>> /\ used = <<>> /\ launched = <<>>
    /\ chmods = <<>> /\ sent = <<>> /\ errs = <<>>

NextCtl ==
    \/ main
    \/ access_probe
    \/ connect_probe
    \/ system_launch
    \/ access_retry
    \/ connect_retry
    \/ stat_device
    \/ chmod_device
    \/ write_command
    \/ read_ack
    \/ close_socket

SpecCtl == InitCtl /\ [][NextCtl]_vars

CtlTypeOK ==
    /\ cpc \in {"main", "access", "connect", "system", "access2", "connect2",
                "stat", "chmod", "write", "read", "close", "done"}
    /\ exitcode \in {-1, EXIT_SUCCESS, EXIT_FAILURE}
    /\ (cpc = "done") = (exitcode # -1)
    /\ Len(cbuf) < BufSize


\* ---------------------------------------------------------------------------
\* Properties of the control tool
\* ---------------------------------------------------------------------------

\* the positions in ops of the calls of one kind
OpsNamed(name) == {i \in 1..Len(ops) : ops[i].call = name}

\* the first probe (lines 36-37) has failed
FirstProbeFailed ==
    \/ Len(ops) >= 1 /\ ops[1] = Call("access", -1)
    \/ Len(ops) >= 2 /\ ops[2] = Call("connect", -1)

\* C11 (control framing): whatever is written to the control socket is one
\* command, "+" path CR LF for an add and "-" path CR LF for a remove, with
\* the whole path that passed the length check; a run that ends in success
\* has written it.
ControlFraming ==
    /\ Len(sent) <= 1
    /\ \A i \in 1..Len(sent) :
        \/ argv1 = "add" /\ sent[i] = "+" \o argv2 \o "\r\n"
        \/ argv1 = "remove" /\ sent[i] = "-" \o argv2 \o "\r\n"
    /\ (cpc = "done" /\ exitcode = EXIT_SUCCESS) => Len(sent) = 1

ControlFramingWitness ==
    /\ cpc = "done" /\ exitcode = EXIT_SUCCESS
    /\ argv1 = "add" /\ argv2 = Dev127
    /\ sent = <<"+" \o Dev127 \o "\r\n">>

\* C12 (unknown-action rejection): an action other than add and remove that
\* passed main's checks ends the run with the unknown-action error and
\* without any system call on the socket.
UnknownActionRejected ==
    (/\ ArgError(argc, argv1, argv2) = ""
     /\ argv1 \notin {"add", "remove"}
     /\ cpc # "main")
    => /\ ops = <<>>
       /\ cpc = "done"
       /\ exitcode = EXIT_FAILURE
       /\ \E i \in 1..Len(errs) : errs[i] = "unknown"

\* C13 (launch guard): every launch is for an add and comes right after the
\* failed first probe; a failed first probe with another action ends the run
\* in failure with nothing launched.
LaunchGuard ==
    /\ Len(launched) = Cardinality(OpsNamed("system"))
    /\ \A i \in OpsNamed("system") :
        /\ argv1 = "add"
        /\ \/ i = 2 /\ ops[1] = Call("access", -1)
           \/ i = 3 /\ ops[1] = Call("access", 0) /\ ops[2] = Call("connect", -1)
    /\ (FirstProbeFailed /\ argv1 # "add")
       => /\ launched = <<>>
          /\ cpc = "done" /\ status = -1 /\ exitcode = EXIT_FAILURE

LaunchGuardWitness ==
    /\ Len(ops) >= 3
    /\ ops[1] = Call("access", 0) /\ ops[2] = Call("connect", -1)
    /\ ops[3].call = "system"
    /\ Len(launched) = 1

\* C14 as stated (launch fallback): an add that finds no socket path runs
\* exactly one launch, "gpsd <options> -F <socket>", and then makes exactly
\* one more existence check and exactly one more connect attempt.
LaunchFallbackExact ==
    (argv1 = "add" /\ cpc = "done" /\ Len(ops) >= 1 /\ ops[1] = Call("access", -1))
    => /\ launched = <<"gpsd " \o gpsd_options \o " -F " \o control_socket>>
       /\ Cardinality(OpsNamed("system")) = 1
       /\ Cardinality(OpsNamed("access")) = 2
       /\ Cardinality(OpsNamed("connect")) = 1

\* C14 amended (launch fallback): an add that finds no socket path runs
\* exactly one launch, the first 511 bytes of "gpsd <options> -F <socket>";
\* if the launch reports failure nothing more is tried; if it reports
\* success there is exactly one more existence check, followed by exactly
\* one connect attempt when the path then exists and by none when it does not.
LaunchFallback ==
    (argv1 = "add" /\ cpc = "done" /\ Len(ops) >= 1 /\ ops[1] = Call("access", -1))
    => LET whole == "gpsd " \o gpsd_options \o " -F " \o control_socket
       IN  /\ launched = <<IF Len(whole) <= BufSize - 1 THEN whole
                           ELSE SubSeq(whole, 1, BufSize - 1)>>
           /\ OpsNamed("system") = {2}
           /\ IF ops[2].rc # 0
              THEN Len(ops) = 2
              ELSE /\ OpsNamed("access") = {1, 3}
                   /\ IF ops[3].rc = 0
                      THEN OpsNamed("connect") = {4}
                      ELSE OpsNamed("connect") = {} /\ Len(ops) = 3

LaunchFallbackWitness ==
    /\ argv1 = "add" /\ cpc = "done"
    /\ Len(ops) >= 4
    /\ ops[1] = Call("access", -1) /\ ops[2] = Call("system", 0)
    /\ ops[3] = Call("access", 0) /\ ops[4] = Call("connect", SockFd)
    /\ launched = <<"gpsd -n -b -F /tmp/alt.sock">>

\* C15 (daemon unreachable): when the launch reports failure, or the path is
\* still missing after it, or the connect after it fails, the run has ended in
\* failure and nothing was written to a socket.
DaemonUnreachable ==
    \A i \in OpsNamed("system") :
        (\/ ops[i].rc # 0
         \/ Len(ops) >= i + 1 /\ ops[i + 1] = Call("access", -1)
         \/ Len(ops) >= i + 2 /\ ops[i + 2] = Call("connect", -1))
        => /\ cpc = "done" /\ status = -1 /\ exitcode = EXIT_FAILURE
           /\ sent = <<>> /\ OpsNamed("write") = {}

DaemonUnreachableWitness ==
    /\ cpc = "done"
    /\ launched # <<>>
    /\ ops[Len(ops)] = Call("connect", -1)

\* C16 (best-effort permission loosening): on an add with a connection, a
\* chmod that turns the group read and write bits on is attempted right
\* before the command is written, and whatever it returns the write is
\* attempted and a write that does not fail ends the run in success.
BestEffortChmod ==
    argv1 = "add"
    => /\ Len(chmods) = Cardinality(OpsNamed("chmod"))
       /\ \A i \in 1..Len(chmods) : {"S_IRGRP", "S_IWGRP"} \subseteq chmods[i]
       /\ \A i \in OpsNamed("write") : i > 1 /\ ops[i - 1].call = "chmod"
       /\ (cpc = "done" /\ connect >= 0)
          => /\ OpsNamed("chmod") # {}
             /\ OpsNamed("write") # {}
             /\ \A i \in OpsNamed("write") :
                    ops[i].rc >= 0
                    => /\ exitcode = EXIT_SUCCESS
                       /\ sent = <<"+" \o argv2 \o "\r\n">>

BestEffortChmodWitness ==
    /\ argv1 = "add" /\ cpc = "done"
    /\ \E i \in OpsNamed("chmod") : ops[i].rc = -1
    /\ \E i \in OpsNamed("stat") : ops[i].rc = -1
    /\ exitcode = EXIT_SUCCESS

\* C17 (command-line validation): with other than two arguments, an action
\* shorter than 3 or longer than 7 characters, or a path of GPS_PATH_MAX or
\* more characters, the tool exits with failure and has made no existence
\* check, connect, launch or write.
CommandLineValidation ==
    (/\ cpc # "main"
     /\ \/ argc - 1 # 2
        \/ Len(argv1) < 3 \/ Len(argv1) > 7
        \/ Len(argv2) >= GPS_PATH_MAX)
    => /\ cpc = "done" /\ exitcode = EXIT_FAILURE
       /\ ops = <<>> /\ used = <<>> /\ launched = <<>> /\ sent = <<>>

CommandLineValidationWitness ==
    /\ cpc = "done" /\ exitcode = EXIT_FAILURE
    /\ argc = 3 /\ argv1 = "add" /\ argv2 = Dev128

\* C18 (exit status): the tool exits with 0 exactly when a connection was
\* established, the action is add or remove, and the write did not fail; in
\* every other case it exits with a non-zero status.
ExitStatus ==
    cpc = "done"
    => /\ exitcode \in {EXIT_SUCCESS, EXIT_FAILURE}
       /\ EXIT_FAILURE # 0
       /\ (exitcode = 0)
          <=> /\ connect >= 0
              /\ argv1 \in {"add", "remove"}
              /\ \E i \in OpsNamed("write") : ops[i].rc >= 0

ExitStatusWitness ==
    /\ cpc = "done" /\ exitcode = 0
    /\ argv1 = "remove"
    /\ launched = <<>>

\* the launch options the environment configures
ConfiguredOptions == IF optenv # NULL THEN optenv ELSE ""

\* the probes, the launch and the connects all use one socket path
UsesSocket(path) ==
    /\ \A i \in 1..Len(used) : used[i] = path
    /\ \A i \in 1..Len(launched) :
        launched[i] = LaunchCommand(ConfiguredOptions, path)

\* C19 as stated (socket path resolution): the socket path is the value of
\* GPSD_SOCKET when set and the compiled-in default in every other case; the
\* launch options are the value of GPSD_OPTIONS when set and empty otherwise.
SocketResolutionExact ==
    UsesSocket(IF sockenv # NULL THEN sockenv ELSE DEFAULT_GPSD_SOCKET)

\* C19 amended (socket path resolution): the socket path is the value of
\* GPSD_SOCKET when set; when it is not set it is the compiled-in default for
\* the superuser and "/tmp/gpsd.sock" for every other user; the launch
\* options are the value of GPSD_OPTIONS when set and empty otherwise.
SocketResolution ==
    UsesSocket(IF sockenv # NULL THEN sockenv
               ELSE IF euid = 0 THEN DEFAULT_GPSD_SOCKET
               ELSE "/tmp/gpsd.sock")

SocketResolutionWitness ==
    /\ sockenv = NULL /\ euid # 0 /\ optenv = "-n -b"
    /\ launched = <<"gpsd -n -b -F /tmp/gpsd.sock">>
    /\ used = <<"/tmp/gpsd.sock", "/tmp/gpsd.sock", "/tmp/gpsd.sock">>


\* ---------------------------------------------------------------------------
\* The export method registry (src/libgps/gpsdclient.c)
\*
\* exportmethods[] is a table fixed at build time; a pointer into it is an
\* index, and 0 is the null pointer.  export_lookup is a function of the
\* table and the name, so the tables and the names are drawn from small sets
\* that hold the entries of the source, entries whose names collide, and
\* names that differ from an entry's by case or by a prefix.
\* ---------------------------------------------------------------------------

Method(name, magic, description) ==
    [name |-> name, magic |-> magic, description |-> description]

Entries ==
    {Method("dbus", "GPSD_DBUS_EXPORT", "DBUS broadcast"),
     Method("shm", "GPSD_SHARED_MEMORY", "shared memory"),
     Method("sockets", NULL, "JSON via sockets"),
     Method("sockets", NULL, "JSON via sockets, again"),
     Method("shm2", "GPSD_SHARED_MEMORY", "shared memory, second")}

Tables == UNION {[1..n -> Entries] : n \in 0..MaxEntries}

LookupNames == {"dbus", "shm", "sockets", "shm2", "sh", "Sockets", ""}

\* strcmp(a, b): zero exactly when the strings are equal
Strcmp(a, b) == IF a = b THEN 0 ELSE 1

NITEMS(x) == Len(x)

RECURSIVE ScanFromBreak(_, _, _, _)
RECURSIVE ScanFrom(_, _, _, _)

ScanFromBreak(tbl, name, mp, method) ==
    IF ~(mp < 1 + NITEMS(tbl)) \/ method # 0 THEN method
    ELSE ScanFromBreak(tbl, name, mp + 1,
                       IF Strcmp(tbl[mp].name, name) = 0 THEN mp ELSE method)

\* the for loop of export_lookup from position mp on
ScanFrom(tbl, name, mp, method) ==
    IF ~(mp < 1 + NITEMS(tbl)) THEN method
    ELSE ScanFrom(tbl, name, mp + 1,
                  IF Strcmp(tbl[mp].name, name) = 0 THEN mp ELSE method)

export_lookup ==
    /\ \E name \in LookupNames :
        /\ lname' = name
        /\ lresult' = ScanFrom(table, name, 1, 0)
    /\ lcalled' = TRUE
    /\ UNCHANGED <<table, defres, listing, listed, gpx, gmethod, gout>>
    /\ UNCHANGED nonreg

ExportDefaultFirstSlot(tbl) == 1

\* export_default: &exportmethods[0], or NULL for an empty table
ExportDefault(tbl) == IF NITEMS(tbl) > 0 THEN 1 ELSE 0

RECURSIVE ListFrom(_, _)
\* the for loop of export_list from position method on: the lines printed
ListFrom(tbl, method) ==
    IF ~(method < 1 + NITEMS(tbl)) THEN <<>>
    ELSE <<tbl[method].name \o ": " \o tbl[method].description \o "\n">>
         \o ListFrom(tbl, method + 1)

\* a pointer that may be dereferenced
Valid(tbl, ptr) == ptr \in 1..NITEMS(tbl)

export_default ==
    /\ defres' = ExportDefault(table)
    /\ UNCHANGED <<table, lname, lresult, lcalled, listing, listed, gpx,
                   gmethod, gout>>
    /\ UNCHANGED nonreg

export_list ==
    /\ listing' = ListFrom(table, 1)
    /\ listed' = TRUE
    /\ UNCHANGED <<table, lname, lresult, lcalled, defres, gpx, gmethod, gout>>
    /\ UNCHANGED nonreg

\* gpxlogger main up to the option loop
gpx_main ==
    /\ gpx = "start"
    /\ gmethod' = ExportDefault(table)
    /\ IF ExportDefault(table) = 0
       THEN /\ gout' = Append(gout, "gpxlogger: no export methods.\n")
            /\ gpx' = "exit_failure"
       ELSE /\ gpx' = "getopt"
            /\ UNCHANGED gout
    /\ UNCHANGED <<table, lname, lresult, lcalled, defres, listing, listed>>
    /\ UNCHANGED nonreg

\* case 'e' of the option loop
gpx_option_e ==
    /\ gpx = "getopt"
    /\ \E optarg \in LookupNames :
        /\ gmethod' = ScanFrom(table, optarg, 1, 0)
        /\ IF ScanFrom(table, optarg, 1, 0) = 0
           THEN /\ gout' = Append(gout, "gpxlogger: " \o optarg
                                         \o " is not a known export method.\n")
                /\ gpx' = "exit_failure"
           ELSE UNCHANGED <<gout, gpx>>
    /\ UNCHANGED <<table, lname, lresult, lcalled, defres, listing, listed>>
    /\ UNCHANGED nonreg

\* case 'l' of the option loop
gpx_option_l ==
    /\ gpx = "getopt"
    /\ gout' = gout \o ListFrom(table, 1)
    /\ gpx' = "exit_success"
    /\ UNCHANGED <<table, lname, lresult, lcalled, defres, listing, listed,
                   gmethod>>
    /\ UNCHANGED nonreg

\* case 'h' of the option loop: usage() prints export_default()->name; a
\* null default would be dereferenced there
gpx_option_h ==
    /\ gpx = "getopt"
    /\ IF Valid(table, ExportDefault(table))
       THEN /\ gout' = Append(gout, "Usage: gpxlogger [OPTIONS], default export "
                                     \o table[ExportDefault(table)].name \o "\n")
            /\ gpx' = "exit_failure"
       ELSE /\ gpx' = "crash"
            /\ UNCHANGED gout
    /\ UNCHANGED <<table, lname, lresult, lcalled, defres, listing, listed,
                   gmethod>>
    /\ UNCHANGED nonreg

\* the end of the options: method->magic is read
gpx_options_end ==
    /\ gpx = "getopt"
    /\ gpx' = IF Valid(table, gmethod) THEN "open" ELSE "crash"
    /\ UNCHANGED <<table, lname, lresult, lcalled, defres, listing, listed,
                   gmethod, gout>>
    /\ UNCHANGED nonreg

InitRegistry ==
    /\ ShmInit /\ CtlIdle /\ ParseIdle /\ BarIdle /\ ClientIdle /\ RelIdle
    /\ table \in Tables
    /\ lname = "" /\ lresult = 0 /\ lcalled = FALSE
    /\ defres = -1 /\ listing = <<>> /\ listed = FALSE
    /\ gpx = "start" /\ gmethod = 0 /\ gout = <<>>

NextRegistry ==
    \/ export_lookup
    \/ export_default
    \/ export_list
    \/ gpx_main
    \/ gpx_option_e
    \/ gpx_option_l
    \/ gpx_option_h
    \/ gpx_options_end

SpecRegistry == InitRegistry /\ [][NextRegistry]_vars

\* C20 (registry lookup): a call of export_lookup returns the last entry of
\* the table whose name equals the given name character for character, and
\* the null pointer when no entry has that name; the table is the same
\* after the call as before it.
RegistryLookup ==
    [][/\ table' = table
       /\ lcalled' =>
            LET same == {i \in 1..Len(table) : table[i].name = lname'}
            IN  IF same = {} THEN lresult' = 0
                ELSE /\ lresult' \in same
                     /\ \A i \in same : i <= lresult']_vars

RegistryLookupWitness ==
    /\ lcalled /\ lname = "sockets"
    /\ Len(table) = 3
    /\ table[1].name = "sockets" /\ table[2].name = "sockets"
    /\ table[1] # table[2]
    /\ table[3].name = "shm"
    /\ lresult = 2


\* C21 (registry default and listing): export_default returns the first
\* entry of the table, and the null pointer for an empty table; gpxlogger
\* started with an empty table has exited with failure after its error
\* message and never dereferences a null method; export_list prints one
\* "name: description" line per entry, in table order.
RegistryDefault ==
    /\ defres # -1 => defres = (IF Len(table) = 0 THEN 0 ELSE 1)
    /\ gpx # "crash"
    /\ (Len(table) = 0 /\ gpx # "start")
       => /\ gpx = "exit_failure"
          /\ gout = <<"gpxlogger: no export methods.\n">>
    /\ gpx \in {"getopt", "open"} => gmethod \in 1..Len(table)
    /\ listed
       => /\ Len(listing) = Len(table)
          /\ \A i \in 1..Len(table) :
                listing[i] = table[i].name \o ": " \o table[i].description \o "\n"

RegistryDefaultWitness ==
    /\ Len(table) = 0
    /\ defres = 0
    /\ gpx = "exit_failure"
    /\ listed /\ listing = <<>>


\* ---------------------------------------------------------------------------
\* gpsd_source_spec (src/libgps/gpsdclient.c)
\*
\* The argument is a pointer into the caller's buffer, and the function
\* stores NUL characters into that buffer; so the buffer is state.  A
\* pointer is a position in mem, 0 is the null pointer, and the two string
\* literals the function hands out have positions of their own.
\* ---------------------------------------------------------------------------

NUL == "NUL"                    \* the character '\0'
LOCALHOST == -1                 \* (char *)"localhost"
DEFPORT == -2                   \* (char *)DEFAULT_GPSD_PORT
DEFAULT_GPSD_PORT == "2947"

\* a string as an array of characters
Chars(str) == [i \in 1..Len(str) |-> SubSeq(str, i, i)]

Alphabet == {"h", ":", "[", "]", "/"}

SpecStrings ==
    UNION {[1..n -> Alphabet] : n \in 0..MaxSpecLen}
    \cup {Chars("localhost:2947:/dev/ttyUSB0"), Chars("[fe80::1]:2947"),
          Chars("host::"), Chars("/dev/ttyUSB0"), Chars("localhost")}

RECURSIVE Strchr(_, _, _)
\* strchr(p, c) for a character c other than NUL
Strchr(m, p, c) ==
    IF m[p] = c THEN p
    ELSE IF m[p] = NUL THEN 0
    ELSE Strchr(m, p + 1, c)

RECURSIVE StrAt(_, _)
\* the string that starts at position p of the buffer
StrAt(m, p) == IF m[p] = NUL THEN "" ELSE m[p] \o StrAt(m, p + 1)

\* the string a pointer of the result points to, NULL for the null pointer
Deref(m, p) ==
    IF p = 0 THEN NULL
    ELSE IF p = LOCALHOST THEN "localhost"
    ELSE IF p = DEFPORT THEN DEFAULT_GPSD_PORT
    ELSE StrAt(m, p)

\* *p
FirstChar(m, p) ==
    IF p = LOCALHOST THEN "l"
    ELSE IF p = DEFPORT THEN "2"
    ELSE m[p]

Defaults(m) == [mem |-> m, server |-> LOCALHOST, port |-> DEFPORT, device |-> 0]

SkipToStart(m, spec) == spec

\* where the search for the first colon starts
SkipTo(m, spec) ==
    IF m[spec] = "[" /\ Strchr(m, spec, "]") # 0
    THEN Strchr(m, spec, "]")
    ELSE spec

\* the branch colon1 != NULL
WithColon(m, spec, colon1) ==
    LET m1 == [m EXCEPT ![colon1] = NUL]
        colon2 == Strchr(m1, colon1 + 1, ":")
        m2 == IF colon2 # 0 THEN [m1 EXCEPT ![colon2] = NUL] ELSE m1
    IN  [mem |-> m2,
         server |-> IF colon1 # spec THEN spec ELSE LOCALHOST,
         port |-> IF NUL # m1[colon1 + 1] /\ ":" # m1[colon1 + 1]
                  THEN colon1 + 1 ELSE DEFPORT,
         device |-> IF colon2 # 0 /\ NUL # m2[colon2 + 1]
                    THEN colon2 + 1 ELSE 0]

NoColonServer(m, spec) == [Defaults(m) EXCEPT !.server = spec]

\* the branches colon1 == NULL
NoColon(m, spec) ==
    IF Strchr(m, spec, "/") # 0
    THEN [Defaults(m) EXCEPT !.device = spec]
    ELSE [Defaults(m) EXCEPT !.server = spec]

\* the function down to the end of if (arg != NULL)
Split(m, arg) ==
    IF arg = 0 THEN Defaults(m)
    ELSE LET colon1 == Strchr(m, SkipTo(m, arg), ":")
         IN  IF colon1 # 0 THEN WithColon(m, arg, colon1) ELSE NoColon(m, arg)

\* if (*source->server == '[') ...
StripBrackets(r) ==
    IF FirstChar(r.mem, r.server) = "["
    THEN LET rbrk == Strchr(r.mem, r.server, "]")
         IN  [r EXCEPT !.server = r.server + 1,
                       !.mem = IF rbrk # 0 THEN [r.mem EXCEPT ![rbrk] = NUL]
                               ELSE r.mem]
    ELSE r

gpsd_source_spec ==
    /\ ncalls < MaxParses
    /\ LET r == StripBrackets(Split(mem, sarg))
       IN  /\ mem' = r.mem
           /\ source' = [server |-> r.server, port |-> r.port, device |-> r.device]
    /\ ncalls' = ncalls + 1
    /\ UNCHANGED <<sarg, orig>>
    /\ UNCHANGED nonparse

\* a caller's writable buffer holding a string, or a null argument
InitParse ==
    /\ ShmInit /\ CtlIdle /\ RegIdle /\ BarIdle /\ ClientIdle /\ RelIdle
    /\ \/ \E str \in SpecStrings :
            orig = str /\ mem = str \o <<NUL>> /\ sarg = 1
       \/ orig = <<>> /\ mem = <<NUL>> /\ sarg = 0
    /\ source = [server |-> 0, port |-> 0, device |-> 0]
    /\ ncalls = 0

NextParse ==
    \/ gpsd_source_spec

SpecParse == InitParse /\ [][NextParse]_vars

\* the result as the caller reads it
Server == Deref(mem, source.server)
Port == Deref(mem, source.port)
Device == Deref(mem, source.device)


\* ---------------------------------------------------------------------------
\* Properties of gpsd_source_spec
\* ---------------------------------------------------------------------------

RECURSIVE Join(_)
\* the characters of an array as one string
Join(chars) == IF chars = <<>> THEN "" ELSE Head(chars) \o Join(Tail(chars))

\* the positions of a character in the caller's string
Positions(c) == {i \in 1..Len(orig) : orig[i] = c}

Least(set) == CHOOSE i \in set : \A j \in set : i <= j

\* the caller's string from position a to position b
Text(a, b) == Join(SubSeq(orig, a, b))

\* C22 (parse purity): a call of gpsd_source_spec on a buffer it has been
\* called on before gives the same server, port and device as the call
\* before it.
ParsePurity ==
    [][(ncalls >= 1 /\ ncalls' = ncalls + 1)
       => (Server' = Server /\ Port' = Port /\ Device' = Device)]_vars

\* C23 (defaults only for omitted or empty components): for a string without
\* brackets and for a null argument, the server is the text before the first
\* colon if that is not empty and "localhost" otherwise, the port is the text
\* between the first and the second colon if there is a first colon and the
\* text is not empty and the default port otherwise, the device is the text
\* after the second colon if there is one and the text is not empty, and
\* unset otherwise.
DefaultsOnlyForEmpty ==
    (ncalls = 1 /\ Positions("[") = {} /\ Positions("]") = {})
    => LET cs == Positions(":")
           c1 == Least(cs)
           cs2 == cs \ {c1}
           c2 == Least(cs2)
           seg1 == IF cs = {} THEN Text(1, Len(orig)) ELSE Text(1, c1 - 1)
           seg2 == IF cs = {} THEN ""
                   ELSE IF cs2 = {} THEN Text(c1 + 1, Len(orig))
                   ELSE Text(c1 + 1, c2 - 1)
           seg3 == IF cs = {} \/ cs2 = {} THEN "" ELSE Text(c2 + 1, Len(orig))
       IN  /\ Server = (IF seg1 # "" THEN seg1 ELSE "localhost")
           /\ Port = (IF seg2 # "" THEN seg2 ELSE DEFAULT_GPSD_PORT)
           /\ Device = (IF seg3 # "" THEN seg3 ELSE NULL)

\* the string starts with '[' and holds a ']'
Bracketed == sarg # 0 /\ Len(orig) >= 1 /\ orig[1] = "[" /\ Positions("]") # {}

\* the colons that can separate fields: those after the first ']' of a
\* bracketed string, all of them otherwise
Separators ==
    IF Bracketed THEN {i \in Positions(":") : i > Least(Positions("]"))}
    ELSE Positions(":")

\* the port a string has whose first separating colon is Least(Separators)
PortAfterBracket ==
    LET c1 == Least(Separators)
        rest == Separators \ {c1}
        field == IF rest = {} THEN Text(c1 + 1, Len(orig))
                 ELSE Text(c1 + 1, Least(rest) - 1)
    IN  IF field # "" THEN field ELSE DEFAULT_GPSD_PORT

\* C24 as stated (IPv6 literal handling): for a string that starts with '['
\* and holds a ']', no colon before the ']' separates fields, and the server
\* is the text between the brackets, whether or not a colon follows the ']'.
BracketHandlingExact ==
    (ncalls = 1 /\ Bracketed)
    => /\ Server = Text(2, Least(Positions("]")) - 1)
       /\ Separators # {} => Port = PortAfterBracket
       /\ Separators = {} => Port = DEFAULT_GPSD_PORT

\* C24 amended (IPv6 literal handling): for a string that starts with '[' and
\* holds a ']', no colon before the ']' separates fields, and the server is
\* the text between the brackets, also when no colon follows the ']' unless
\* the string then holds a '/': in that case the whole string is the device
\* and the server is "localhost".
BracketHandling ==
    (ncalls = 1 /\ Bracketed)
    => /\ Separators # {} => Port = PortAfterBracket
       /\ Separators = {} => Port = DEFAULT_GPSD_PORT
       /\ IF Separators = {} /\ Positions("/") # {}
          THEN Server = "localhost" /\ Device = Text(1, Len(orig))
          ELSE Server = Text(2, Least(Positions("]")) - 1)

BracketHandlingWitness ==
    /\ ncalls = 1 /\ orig = Chars("[fe80::1]:2947")
    /\ Server = "fe80::1" /\ Port = "2947" /\ Device = NULL

\* C25 as stated (bare device path): a string without a separating colon that
\* holds a '/' is the device, and server and port are the defaults; a string
\* with neither a colon nor a '/' is the server, and port and device are the
\* defaults.
BareDevicePathExact ==
    (ncalls = 1 /\ sarg # 0)
    => /\ (Separators = {} /\ Positions("/") # {})
          => /\ Device = Text(1, Len(orig))
             /\ Server = "localhost" /\ Port = DEFAULT_GPSD_PORT
       /\ (Positions(":") = {} /\ Positions("/") = {})
          => /\ Server = Text(1, Len(orig))
             /\ Port = DEFAULT_GPSD_PORT /\ Device = NULL

\* C25 amended (bare device path): a string without a separating colon that
\* holds a '/' is the device, and server and port are the defaults; a string
\* with neither a colon nor a '/' is the server, less a leading '[' and
\* less everything from the first ']' on when it starts with '[', and port
\* and device are the defaults.
BareDevicePath ==
    (ncalls = 1 /\ sarg # 0)
    => /\ (Separators = {} /\ Positions("/") # {})
          => /\ Device = Text(1, Len(orig))
             /\ Server = "localhost" /\ Port = DEFAULT_GPSD_PORT
       /\ (Positions(":") = {} /\ Positions("/") = {})
          => /\ Server = (IF Len(orig) >= 1 /\ orig[1] = "["
                          THEN Text(2, IF Positions("]") # {}
                                       THEN Least(Positions("]")) - 1
                                       ELSE Len(orig))
                          ELSE Text(1, Len(orig)))
             /\ Port = DEFAULT_GPSD_PORT /\ Device = NULL

BareDevicePathWitness ==
    /\ ncalls = 1 /\ orig = Chars("/dev/ttyUSB0")
    /\ Device = "/dev/ttyUSB0" /\ Server = "localhost" /\ Port = "2947"


\* ---------------------------------------------------------------------------
\* Further properties of the shared-memory export
\* ---------------------------------------------------------------------------

\* C26 as stated (one publish invalidates at most one attempt): a call of
\* read_snapshot with max_attempts >= 2 that exactly one publish of a running
\* daemon overlapped ends in success after at most one attempt that saw
\* unequal markers.
OnePublishOneRetryExact ==
    [][(rpc = "trail" /\ rpc' = "idle" /\ rmax >= 2 /\ rpubs = 1 /\ alive)
       => (result' = "ok" /\ mismatches' <= 1)]_vars

\* C26 amended (one publish invalidates at most one attempt): when exactly
\* one publish overlaps a call with max_attempts >= 2 and that publish is
\* complete before the second attempt reads the lead marker, the second
\* attempt sees equal markers, so at most one attempt saw unequal markers
\* and the call succeeds.
OnePublishOneRetry ==
    [][(/\ rpc = "trail" /\ rpc' # "trail"
        /\ rmax >= 2 /\ attempts = 2 /\ rpubs = 1 /\ ~roverlap)
       => (result' = "ok" /\ mismatches' <= 1)]_vars

OnePublishOneRetryWitness ==
    /\ rpc = "trail" /\ rmax = 2 /\ attempts = 2 /\ mismatches = 1
    /\ rpubs = 1 /\ ~roverlap
    /\ v1 = tick /\ seg.bookend2 = tick /\ tick >= 1


\* ---------------------------------------------------------------------------
\* shm_update and the order in which its stores become visible
\*
\* The stores of shm_update leave the processor through a store buffer: a
\* store that has been issued becomes visible to other processes at some
\* later time, and two stores that no memory_barrier() separates may become
\* visible in either order.  memory_barrier() returns only when every store
\* issued before it is visible.
\* ---------------------------------------------------------------------------

\* the positions of UpdateOrder that a memory_barrier() follows
BarrierAfter == {1, 2, 3}

\* the word stores of one step of UpdateOrder
StoresOf(what, t) ==
    IF what = "gpsdata"
    THEN {[var |-> "gpsdata", word |-> k, tick |-> t] : k \in 1..NData}
    ELSE {[var |-> what, word |-> 0, tick |-> t]}

\* the next step of the call, 0 after the last
Advance(pos) == IF pos = Len(UpdateOrder) THEN 0 ELSE pos + 1

\* entry of shm_update with a segment attached: ++tick
bar_shm_update ==
    /\ wpc = 0 /\ wcalls < MaxCalls
    /\ wtick' = NextTick(wtick)
    /\ wcalls' = wcalls + 1
    /\ wpc' = 1 /\ wph' = "store"
    /\ UNCHANGED <<wpend, wvis>>
    /\ UNCHANGED nonbar

\* one assignment to the segment
bar_store ==
    /\ wpc \in 1..Len(UpdateOrder) /\ wph = "store"
    /\ wpend' = wpend \cup StoresOf(UpdateOrder[wpc], wtick)
    /\ IF wpc \in BarrierAfter
       THEN wph' = "barrier" /\ wpc' = wpc
       ELSE wph' = "store" /\ wpc' = Advance(wpc)
    /\ UNCHANGED <<wtick, wcalls, wvis>>
    /\ UNCHANGED nonbar

memory_barrier ==
    /\ wph = "barrier"
    /\ wpend = {}
    /\ wph' = "store" /\ wpc' = Advance(wpc)
    /\ UNCHANGED <<wtick, wcalls, wpend, wvis>>
    /\ UNCHANGED nonbar

\* the memory system makes one issued store visible
bar_drain ==
    /\ \E st \in wpend :
        /\ wpend' = wpend \ {st}
        /\ wvis' = Append(wvis, st)
    /\ UNCHANGED <<wpc, wph, wtick, wcalls>>
    /\ UNCHANGED nonbar

InitBarrier ==
    ShmInit /\ CtlIdle /\ RegIdle /\ ParseIdle /\ BarIdle /\ ClientIdle /\ RelIdle

NextBarrier ==
    \/ bar_shm_update
    \/ bar_store
    \/ memory_barrier
    \/ bar_drain

SpecBarrier == InitBarrier /\ [][NextBarrier]_vars

\* the store group of a store: 0 the first marker, 1 the payload, 2 the last
\* marker, counted on through the publishes
Rank(st) ==
    3 * st.tick + (IF st.var = UpdateOrder[1] THEN 0
                   ELSE IF st.var = UpdateOrder[Len(UpdateOrder)] THEN 2
                   ELSE 1)

\* C27 (barrier after every store group): the stores of shm_update become
\* visible to other processes in the order first marker, payload, last
\* marker, and the last marker of a publish becomes visible before any
\* store of the next publish.
StoreGroupsOrdered ==
    \A i, j \in 1..Len(wvis) : i < j => Rank(wvis[i]) <= Rank(wvis[j])


\* the connect calls that gave a connection
Connections == {i \in OpsNamed("connect") : ops[i].rc >= 0}

\* C28 (connection discipline): a run makes at most one connection; on it,
\* whatever the action, it makes at most one write and at most one read, of
\* at most 12 bytes, and then closes it exactly once, as its last call;
\* without a connection it writes, reads and closes nothing.
ConnectionDiscipline ==
    /\ Cardinality(Connections) <= 1
    /\ Cardinality(OpsNamed("write")) <= 1
    /\ Cardinality(OpsNamed("read")) <= 1
    /\ Cardinality(OpsNamed("close")) <= 1
    /\ \A i \in OpsNamed("read") : ops[i].rc <= 12
    /\ \A i \in OpsNamed("write") \cup OpsNamed("read") \cup OpsNamed("close") :
        \E j \in Connections : j < i
    /\ \A i \in OpsNamed("close") : i = Len(ops)
    /\ cpc = "done"
       => Cardinality(OpsNamed("close")) = Cardinality(Connections)

ConnectionDisciplineWitness ==
    /\ cpc = "done" /\ argv1 = "foo"
    /\ ops = <<Call("access", 0), Call("connect", SockFd), Call("close", 0)>>


\* ================================================================ cgps

SIGHUP == 1
SIGINT == 2
SIGQUIT == 3
SIGTERM == 15
CGPS_QUIT == 0
GPS_GONE == -1
GPS_ERROR == -2
GPS_TIMEOUT == -3
\* the literal wait_clicks is compared with
TimeoutClicks == 240
\* the signals cgps routes to quit_handler
CgpsSignals == {SIGINT, SIGHUP}
\* what wgetch hands back: the quit key, or anything else (ERR included)
Keys == {"q", "other"}
\* gps_read: a message, a hang-up (-1, errno 0) or an error (-1, errno set)
Reads == {"message", "gone", "error"}

\* the line die writes for its argument, none for CGPS_QUIT
DieMessage(sig) ==
    CASE sig = CGPS_QUIT -> <<>>
      [] sig = GPS_GONE -> <<"cgps: GPS hung up.">>
      [] sig = GPS_ERROR -> <<"cgps: GPS read returned error">>
      [] sig = GPS_TIMEOUT -> <<"cgps: GPS timeout">>
      [] OTHER -> <<"cgps: caught signal">>

\* die: leave curses, close the connection, say why, exit(EXIT_SUCCESS)
die(sig, said) ==
    /\ cclosed' = cclosed + 1
    /\ cerr' = cerr \o said \o DieMessage(sig)
    /\ died' = sig
    /\ cgpc' = "exited"

\* one more step of main, counted when quit_handler has already run
CgpsStep == csince' = IF sig_flag # 0 THEN csince + 1 ELSE 0

\* the test made on wait_clicks after an empty wait: the value compared is
\* the one before the increment
TimedOut(clicks) == TimeoutClicks < clicks

\* a poll point: die on a signal, else redo the windows on a resize
cgps_poll(here, next) ==
    /\ client = "cgps" /\ cgpc = here
    /\ IF sig_flag # 0
       THEN /\ die(sig_flag, <<>>)
            /\ UNCHANGED resize_flag
       ELSE /\ resize_flag' = 0
            /\ cgpc' = next
            /\ UNCHANGED <<died, cclosed, cerr>>
    /\ CgpsStep
    /\ UNCHANGED <<client, sig_flag, wait_clicks, ret, empties>>
    /\ UNCHANGED <<xpc, xsig_flag, reconnect, intrack, atexits, footers,
                   xclosed, xstatus, xsince>>
    /\ UNCHANGED gpxlog
    /\ UNCHANGED nonclient

\* ret = gps_waiting(&gpsdata, 500000)
gps_waiting ==
    /\ client = "cgps" /\ cgpc = "wait"
    /\ \E r \in {0, 1} :
        /\ ret' = r
        /\ empties' = IF r = 0 THEN empties + 1 ELSE 0
    /\ cgpc' = "poll2"
    /\ CgpsStep
    /\ UNCHANGED <<client, sig_flag, resize_flag, wait_clicks, died, cclosed,
                   cerr>>
    /\ UNCHANGED <<xpc, xsig_flag, reconnect, intrack, atexits, footers,
                   xclosed, xstatus, xsince>>
    /\ UNCHANGED gpxlog
    /\ UNCHANGED nonclient

\* if (!ret) count the empty wait and give up past the limit, else read
cgps_read ==
    /\ client = "cgps" /\ cgpc = "read"
    /\ IF ret = 0
       THEN /\ wait_clicks' = wait_clicks + 1
            /\ IF TimedOut(wait_clicks)
               THEN die(GPS_TIMEOUT, <<"cgps: timeout contactong gpsd">>)
               ELSE /\ cgpc' = "poll3"
                    /\ UNCHANGED <<died, cclosed, cerr>>
       ELSE /\ wait_clicks' = 0
            /\ \E got \in Reads :
                IF got = "message"
                THEN /\ cgpc' = "poll3"
                     /\ UNCHANGED <<died, cclosed, cerr>>
                ELSE die(IF got = "gone" THEN GPS_GONE ELSE GPS_ERROR,
                         <<"cgps: socket error 4">>)
    /\ CgpsStep
    /\ UNCHANGED <<client, sig_flag, resize_flag, ret, empties>>
    /\ UNCHANGED <<xpc, xsig_flag, reconnect, intrack, atexits, footers,
                   xclosed, xstatus, xsince>>
    /\ UNCHANGED gpxlog
    /\ UNCHANGED nonclient

\* switch (wgetch(datawin)): 'q' quits, the other keys change the display
wgetch ==
    /\ client = "cgps" /\ cgpc = "input"
    /\ \E key \in Keys :
        IF key = "q"
        THEN die(CGPS_QUIT, <<>>)
        ELSE /\ cgpc' = "poll1"
             /\ UNCHANGED <<died, cclosed, cerr>>
    /\ CgpsStep
    /\ UNCHANGED <<client, sig_flag, resize_flag, wait_clicks, ret, empties>>
    /\ UNCHANGED <<xpc, xsig_flag, reconnect, intrack, atexits, footers,
                   xclosed, xstatus, xsince>>
    /\ UNCHANGED gpxlog
    /\ UNCHANGED nonclient

\* quit_handler of cgps.c, run by SIGINT or SIGHUP while cgps lives
quit_handler ==
    /\ client = "cgps" /\ cgpc # "exited"
    /\ \E signum \in CgpsSignals : sig_flag' = signum
    /\ UNCHANGED <<client, cgpc, resize_flag, wait_clicks, ret, died, cclosed,
                   cerr, empties, csince>>
    /\ UNCHANGED <<xpc, xsig_flag, reconnect, intrack, atexits, footers,
                   xclosed, xstatus, xsince>>
    /\ UNCHANGED gpxlog
    /\ UNCHANGED nonclient

\* resize, run by SIGWINCH
resize ==
    /\ client = "cgps" /\ cgpc # "exited"
    /\ resize_flag' = 1
    /\ UNCHANGED <<client, cgpc, sig_flag, wait_clicks, ret, died, cclosed,
                   cerr, empties, csince>>
    /\ UNCHANGED <<xpc, xsig_flag, reconnect, intrack, atexits, footers,
                   xclosed, xstatus, xsince>>
    /\ UNCHANGED gpxlog
    /\ UNCHANGED nonclient


\* ================================================================ gpxlogger

\* the signals gpxlogger routes to quit_handler
GpxSignals == {SIGTERM, SIGQUIT, SIGINT}
\* how the start goes: gps_open, gps_stream and atexit may each fail
Startups == {"ok", "open_failed", "stream_failed", "atexit_failed"}
\* gps_mainloop hands back -1 on a timeout and 0 when the read loop ends
MainloopReturns == {-1, 0}

MODE_NO_FIX == 1
MODE_2D == 2
NS_IN_SEC == 1000000000
\* the fixes a report can carry: stamped on a whole second or 0.4 ms after
\* it, without or with a 2D fix, at one of two places 2 m apart
Fixes ==
    [time : {Ts(sec, nsec) : sec \in 0..MaxSec, nsec \in {0, 400000}},
     mode : {MODE_NO_FIX, MODE_2D}, latitude : {0, 2}]
\* the values option -i leaves in timeout and option -m in minmove
Timeouts == {1, 2}
Minmoves == {0, 1}

\* TS_SUB(r, ts1, ts2): the difference, normalised so that tv_sec and
\* tv_nsec have the sign of the result and tv_nsec is less than a second
TS_SUBRaw(ts1, ts2) ==
    Ts(ts1.tv_sec - ts2.tv_sec, ts1.tv_nsec - ts2.tv_nsec)
TS_SUB(ts1, ts2) ==
    LET sec == ts1.tv_sec - ts2.tv_sec
        nsec == ts1.tv_nsec - ts2.tv_nsec
    IN  IF 1 <= sec \/ (0 = sec /\ 0 <= nsec)
        THEN IF NS_IN_SEC <= nsec THEN Ts(sec + 1, nsec - NS_IN_SEC)
             ELSE IF 0 > nsec THEN Ts(sec - 1, nsec + NS_IN_SEC)
             ELSE Ts(sec, nsec)
        ELSE IF -NS_IN_SEC >= nsec THEN Ts(sec - 1, nsec + NS_IN_SEC)
             ELSE IF 0 < nsec THEN Ts(sec + 1, nsec - NS_IN_SEC)
             ELSE Ts(sec, nsec)

\* timespec_to_iso8601: the time written with three decimals, so rounded to
\* the millisecond; given here as seconds and milliseconds
timespec_to_iso8601(ts) ==
    IF 999499999 < ts.tv_nsec THEN <<ts.tv_sec + 1, 0>>
    ELSE <<ts.tv_sec, (ts.tv_nsec + 500000) \div 1000000>>

\* an element of the output: the header "gpx", a track start "trk", a
\* trackpoint "trkpt" with its time, a track end "/trk", the footer "/gpx"
Element(tag, time) == [tag |-> tag, time |-> time]

\* print_gpx_footer: end the open track, then close the document
print_gpx_footerBare == <<Element("/gpx", <<>>)>>
print_gpx_footer ==
    (IF intrack THEN <<Element("/trk", <<>>)>> ELSE <<>>)
        \o <<Element("/gpx", <<>>)>>

\* the two early returns of conditionally_log_fix: a time equal to the
\* last logged one or no 2D fix, and a move shorter than minmove
RejectedAnyTime(f) ==
    \/ f.mode < MODE_2D
    \/ (0 < minmove /\ ~xfirst
        /\ (IF f.latitude >= old_lat THEN f.latitude - old_lat
            ELSE old_lat - f.latitude) < minmove)
Rejected(f) ==
    \/ f.time = old_ts_time \/ f.mode < MODE_2D
    \/ (0 < minmove /\ ~xfirst
        /\ (IF f.latitude >= old_lat THEN f.latitude - old_lat
            ELSE old_lat - f.latitude) < minmove)

\* the exit status main and conditionally_log_fix choose: Ctrl-C and no
\* signal are a success, any other signal is a failure
SignalStatus(flag) ==
    IF flag # 0 /\ flag # SIGINT THEN EXIT_FAILURE ELSE EXIT_SUCCESS

\* exit(code): the atexit handler cleanup, once registered, writes the
\* footer and closes the connection
gpx_exit(code, written) ==
    /\ xstatus' = code
    /\ xpc' = "exited"
    /\ footers' = IF atexits THEN footers + 1 ELSE footers
    /\ xclosed' = IF atexits THEN xclosed + 1 ELSE xclosed
    /\ logfile' = IF atexits THEN written \o print_gpx_footer ELSE written

\* one more step of main, counted when quit_handler has already run
GpxStep == xsince' = IF xsig_flag # 0 THEN xsince + 1 ELSE 0

\* the test made when gps_mainloop came back negative
GiveUpNoSignal == ~reconnect
GiveUp == ~reconnect \/ xsig_flag # 0

\* main from gps_open to atexit(cleanup); the handlers are installed
gpx_open ==
    /\ client = "gpxlogger" /\ xpc = "open"
    /\ \E how \in Startups :
        IF how = "ok"
        THEN /\ atexits' = TRUE
             /\ xpc' = "mainloop"
             /\ logfile' = <<Element("gpx", <<>>)>>
             /\ UNCHANGED <<footers, xclosed, xstatus>>
        ELSE /\ gpx_exit(EXIT_FAILURE,
                         IF how = "atexit_failed"
                         THEN <<Element("gpx", <<>>)>> ELSE logfile)
             /\ UNCHANGED atexits
    /\ GpxStep
    /\ UNCHANGED <<client, xsig_flag, reconnect, intrack>>
    /\ UNCHANGED <<timeout, minmove, fix, old_ts_time, xfirst, old_lat, nfixes>>
    /\ UNCHANGED <<cgpc, sig_flag, resize_flag, wait_clicks, ret, died, cclosed,
                   cerr, empties, csince>>
    /\ UNCHANGED nonclient

\* gps_mainloop: it calls the hook on a fix, or comes back; a negative
\* return runs the body of the while loop, any other leaves the loop
gps_mainloop ==
    /\ client = "gpxlogger" /\ xpc = "mainloop"
    /\ \/ /\ nfixes < MaxFixes
          /\ \E f \in Fixes : fix' = f
          /\ nfixes' = nfixes + 1
          /\ xpc' = "callback"
       \/ /\ \E r \in MainloopReturns :
               xpc' = IF 0 > r /\ ~GiveUp THEN "sleep" ELSE "final"
          /\ UNCHANGED <<fix, nfixes>>
    /\ GpxStep
    /\ UNCHANGED <<timeout, minmove, old_ts_time, xfirst, old_lat, logfile>>
    /\ UNCHANGED <<client, xsig_flag, reconnect, intrack, atexits, footers,
                   xclosed, xstatus>>
    /\ UNCHANGED <<cgpc, sig_flag, resize_flag, wait_clicks, ret, died, cclosed,
                   cerr, empties, csince>>
    /\ UNCHANGED nonclient

\* conditionally_log_fix: exit on a signal, else log the fix or skip it
conditionally_log_fix ==
    /\ client = "gpxlogger" /\ xpc = "callback"
    /\ IF xsig_flag # 0
       THEN /\ gpx_exit(SignalStatus(xsig_flag), logfile)
            /\ UNCHANGED <<intrack, old_ts_time, xfirst, old_lat>>
       ELSE /\ xpc' = "mainloop"
            /\ UNCHANGED <<footers, xclosed, xstatus>>
            /\ IF Rejected(fix)
               THEN UNCHANGED <<intrack, old_ts_time, xfirst, old_lat, logfile>>
               ELSE LET ts_diff == TS_SUB(fix.time, old_ts_time)
                        labs == IF ts_diff.tv_sec < 0 THEN -ts_diff.tv_sec
                                ELSE ts_diff.tv_sec
                        jump == labs > timeout /\ ~xfirst
                        start == jump \/ ~intrack
                    IN  /\ logfile' = logfile
                            \o (IF jump THEN <<Element("/trk", <<>>)>> ELSE <<>>)
                            \o (IF start THEN <<Element("trk", <<>>)>> ELSE <<>>)
                            \o <<Element("trkpt",
                                         timespec_to_iso8601(fix.time))>>
                        /\ intrack' = TRUE
                        /\ xfirst' = IF start THEN FALSE ELSE xfirst
                        /\ old_ts_time' = fix.time
                        /\ old_lat' = IF 0 < minmove THEN fix.latitude
                                      ELSE old_lat
    /\ GpxStep
    /\ UNCHANGED <<timeout, minmove, fix, nfixes>>
    /\ UNCHANGED <<client, xsig_flag, reconnect, atexits>>
    /\ UNCHANGED <<cgpc, sig_flag, resize_flag, wait_clicks, ret, died, cclosed,
                   cerr, empties, csince>>
    /\ UNCHANGED nonclient

\* sleep(timeout) before the next gps_mainloop
gpx_sleep ==
    /\ client = "gpxlogger" /\ xpc = "sleep"
    /\ xpc' = "mainloop"
    /\ GpxStep
    /\ UNCHANGED <<client, xsig_flag, reconnect, intrack, atexits, footers,
                   xclosed, xstatus>>
    /\ UNCHANGED <<cgpc, sig_flag, resize_flag, wait_clicks, ret, died, cclosed,
                   cerr, empties, csince>>
    /\ UNCHANGED gpxlog
    /\ UNCHANGED nonclient

\* the end of main, after the loop
gpx_finish ==
    /\ client = "gpxlogger" /\ xpc = "final"
    /\ gpx_exit(SignalStatus(xsig_flag), logfile)
    /\ GpxStep
    /\ UNCHANGED <<client, xsig_flag, reconnect, intrack, atexits>>
    /\ UNCHANGED <<timeout, minmove, fix, old_ts_time, xfirst, old_lat, nfixes>>
    /\ UNCHANGED <<cgpc, sig_flag, resize_flag, wait_clicks, ret, died, cclosed,
                   cerr, empties, csince>>
    /\ UNCHANGED nonclient

\* quit_handler of gpxlogger.c, run by SIGTERM, SIGQUIT or SIGINT
gpx_quit_handler ==
    /\ client = "gpxlogger" /\ xpc # "exited"
    /\ \E signum \in GpxSignals : xsig_flag' = signum
    /\ UNCHANGED <<client, xpc, reconnect, intrack, atexits, footers, xclosed,
                   xstatus, xsince>>
    /\ UNCHANGED <<cgpc, sig_flag, resize_flag, wait_clicks, ret, died, cclosed,
                   cerr, empties, csince>>
    /\ UNCHANGED gpxlog
    /\ UNCHANGED nonclient

\* one client starts: cgps at the top of its loop, gpxlogger before gps_open
InitClient ==
    /\ ShmInit /\ CtlIdle /\ RegIdle /\ ParseIdle /\ BarIdle /\ RelIdle
    /\ client \in {"cgps", "gpxlogger"}
    /\ cgpc = IF client = "cgps" THEN "poll1" ELSE "exited"
    /\ sig_flag = 0 /\ resize_flag = 0 /\ wait_clicks = 0
    /\ ret = 0 /\ died = NoDie /\ cclosed = 0 /\ cerr = <<>> /\ empties = 0
    /\ csince = 0
    /\ xpc = IF client = "gpxlogger" THEN "open" ELSE "exited"
    /\ xsig_flag = 0 /\ reconnect \in BOOLEAN /\ intrack = FALSE
    /\ (client = "cgps" => reconnect = FALSE)
    /\ atexits = FALSE /\ footers = 0 /\ xclosed = 0 /\ xstatus = -1
    /\ xsince = 0
    /\ timeout \in Timeouts /\ minmove \in Minmoves
    /\ (client = "cgps" => timeout = 1 /\ minmove = 0)
    /\ fix = NoFix /\ old_ts_time = TsZero /\ xfirst = TRUE /\ old_lat = 0
    /\ logfile = <<>> /\ nfixes = 0

NextClient ==
    \/ cgps_poll("poll1", "wait")
    \/ gps_waiting
    \/ cgps_poll("poll2", "read")
    \/ cgps_read
    \/ cgps_poll("poll3", "input")
    \/ wgetch
    \/ quit_handler
    \/ resize
    \/ gpx_open
    \/ gps_mainloop
    \/ conditionally_log_fix
    \/ gpx_sleep
    \/ gpx_finish
    \/ gpx_quit_handler

SpecClient == InitClient /\ [][NextClient]_vars


\* C30 (cgps daemon timeout): cgps gives up with the GPS-timeout reason
\* after 240 consecutive waits that returned no data, so no run sees more
\* than 240 of them in a row and a timeout exit has seen exactly 240; a wait
\* that returned data leaves the count of empty waits at zero.
TimeoutAfter240 ==
    /\ empties <= TimeoutClicks
    /\ died = GPS_TIMEOUT => empties = TimeoutClicks
    /\ (cgpc = "poll3" /\ ret # 0) => wait_clicks = 0


\* the places where main of cgps tests sig_flag
PollPoints == {"poll1", "poll2", "poll3"}
\* the reasons die is given that are not signal numbers
OwnReasons == {CGPS_QUIT, GPS_GONE, GPS_ERROR, GPS_TIMEOUT}

\* C29 (cooperative signal termination): a step that changes a signal flag
\* changes nothing else of its client; cgps closes the connection and exits
\* for a signal only at a poll point where the flag is set, and a poll point
\* reached with the flag set always does so, at most two steps of main after
\* the handler ran; gpxlogger writes the footer and closes the connection
\* only while exiting from its main flow, it exits in the fix callback that
\* finds the flag set, a return of gps_mainloop with the flag set leaves the
\* loop instead of sleeping, and it is gone at most three steps of main after
\* the handler ran.
CooperativeTermination ==
    /\ [](csince <= 2 /\ xsince <= 3)
    /\ [][/\ sig_flag' # sig_flag
             => UNCHANGED <<cgpc, resize_flag, wait_clicks, ret, died, cclosed,
                            cerr, empties>>
          /\ xsig_flag' # xsig_flag
             => UNCHANGED <<xpc, reconnect, intrack, atexits, footers, xclosed,
                            xstatus>>
          /\ cclosed' # cclosed
             => cclosed' = cclosed + 1 /\ cgpc # "exited" /\ cgpc' = "exited"
          /\ (died' # died /\ died' \notin OwnReasons)
             => /\ cgpc \in PollPoints /\ sig_flag # 0
                /\ died' = sig_flag /\ cclosed' = cclosed + 1
          /\ (cgpc \in PollPoints /\ sig_flag # 0 /\ cgpc' # cgpc)
             => cgpc' = "exited" /\ died' = sig_flag
          /\ (footers' # footers \/ xclosed' # xclosed)
             => /\ footers' = footers + 1 /\ xclosed' = xclosed + 1
                /\ xpc \in {"callback", "final"} /\ xpc' = "exited"
          /\ (xpc = "callback" /\ xsig_flag # 0 /\ xpc' # xpc)
             => /\ xpc' = "exited" /\ footers' = footers + 1
                /\ xclosed' = xclosed + 1
                /\ xstatus' = SignalStatus(xsig_flag)
          /\ (xpc = "mainloop" /\ xsig_flag # 0 /\ xpc' # xpc)
             => xpc' \in {"callback", "final"}
          /\ (xpc = "final" /\ xpc' # xpc)
             => xpc' = "exited" /\ xstatus' = SignalStatus(xsig_flag)
       ]_vars

CooperativeTerminationWitness ==
    /\ client = "gpxlogger" /\ xpc = "exited" /\ reconnect
    /\ xsig_flag = SIGTERM /\ xsince = 3 /\ xstatus = EXIT_FAILURE
    /\ footers = 1 /\ xclosed = 1


\* the time between two timestamps, without a sign: whole seconds and the
\* nanoseconds beyond them
Gap(ts1, ts2) ==
    LET before == \/ ts1.tv_sec < ts2.tv_sec
                  \/ (ts1.tv_sec = ts2.tv_sec /\ ts1.tv_nsec < ts2.tv_nsec)
        a == IF before THEN ts1 ELSE ts2
        b == IF before THEN ts2 ELSE ts1
    IN  IF b.tv_nsec >= a.tv_nsec
        THEN <<b.tv_sec - a.tv_sec, b.tv_nsec - a.tv_nsec>>
        ELSE <<b.tv_sec - a.tv_sec - 1, b.tv_nsec + NS_IN_SEC - a.tv_nsec>>
\* the time between two timestamps is more than t seconds
GapExceeds(ts1, ts2, t) ==
    \/ Gap(ts1, ts2)[1] > t
    \/ (Gap(ts1, ts2)[1] = t /\ Gap(ts1, ts2)[2] > 0)
\* the tags of what a step appended to the output
Appended ==
    [i \in 1..(Len(logfile') - Len(logfile)) |-> logfile'[Len(logfile) + i].tag]
\* a step of the hook that logs a fix when one was logged before
LogsNext ==
    /\ xpc = "callback" /\ xpc' = "mainloop" /\ logfile' # logfile /\ ~xfirst

Tagged(tag) == {i \in 1..Len(logfile) : logfile[i].tag = tag}
\* tracks open after the first i elements: starts less ends
OpenAt(i) ==
    Cardinality({j \in Tagged("trk") : j <= i})
        - Cardinality({j \in Tagged("/trk") : j <= i})

\* C32 (track balance): once gpxlogger has registered its exit handler the
\* output begins with the one header; after every element no track or one
\* track is open, so starts and ends alternate and no end comes without a
\* start; every trackpoint lies in an open track; while gpxlogger runs there
\* is no footer and intrack tells whether a track is open; after the exit,
\* by whatever path, the footer is there exactly once, as the last element,
\* with no track left open.
TrackBalance ==
    atexits
    => /\ Tagged("gpx") = {1}
       /\ \A i \in 1..Len(logfile) : OpenAt(i) \in {0, 1}
       /\ \A i \in Tagged("trk") : OpenAt(i) = 1
       /\ \A i \in Tagged("/trk") : OpenAt(i) = 0
       /\ \A i \in Tagged("trkpt") : OpenAt(i) = 1
       /\ IF xpc = "exited"
          THEN /\ Tagged("/gpx") = {Len(logfile)}
               /\ OpenAt(Len(logfile)) = 0
               /\ footers = 1
          ELSE /\ Tagged("/gpx") = {}
               /\ footers = 0
               /\ intrack <=> OpenAt(Len(logfile)) = 1

\* two tracks written, the second one closed by the footer on a signal
TrackBalanceWitness ==
    /\ xpc = "exited" /\ xsig_flag = SIGTERM
    /\ [i \in 1..Len(logfile) |-> logfile[i].tag]
        = <<"gpx", "trk", "trkpt", "/trk", "trk", "trkpt", "/trk", "/gpx">>


\* a step of the hook that was not ended by a signal
HookStep == xpc = "callback" /\ xpc' = "mainloop"
\* the filter as an action: a fix is logged only with a mode of 2D or more
\* and a timestamp other than the remembered one, and a fix that is not
\* logged leaves last time, last position and open-track flag alone
FilterStep ==
    HookStep
    => /\ logfile' # logfile
          => /\ fix.mode >= MODE_2D /\ fix.time # old_ts_time
             /\ old_ts_time' = fix.time
       /\ logfile' = logfile => UNCHANGED <<old_ts_time, old_lat, intrack>>
\* trackpoints with no trackpoint between them
Consecutive(i, j) ==
    /\ i \in Tagged("trkpt") /\ j \in Tagged("trkpt") /\ i < j
    /\ \A k \in Tagged("trkpt") : ~(i < k /\ k < j)

\* C33 (as stated): the filter holds, the remembered time is the one of the
\* last trackpoint, and no two consecutive trackpoints carry the same time.
FixFilterExact ==
    /\ [][FilterStep]_vars
    /\ [](\A i, j \in 1..Len(logfile) :
            Consecutive(i, j) => logfile[i].time # logfile[j].time)

\* C33 (amended): the filter holds, and the last trackpoint carries the
\* remembered time as timespec_to_iso8601 writes it; so two consecutive
\* trackpoints always come from fixes with different timestamps, while the
\* times they carry are equal when the two round to the same millisecond.
FixFilter ==
    /\ [][FilterStep]_vars
    /\ [](\A j \in Tagged("trkpt") :
            (\A k \in Tagged("trkpt") : k <= j)
            => logfile[j].time = timespec_to_iso8601(old_ts_time))

\* a fix stamped 0.4 ms after the last logged one is logged with the same
\* time
FixFilterWitness ==
    /\ xpc = "mainloop" /\ nfixes = 2 /\ old_ts_time = Ts(1, 400000)
    /\ Len(logfile) = 4
    /\ logfile[3] = Element("trkpt", <<1, 0>>)
    /\ logfile[4] = Element("trkpt", <<1, 0>>)


\* the positions in the stores of the publish in hand that went to a marker
MarkerAt == {i \in 1..Len(stores) : stores[i] \in {"bookend1", "bookend2"}}

\* C34 (published descriptor field): whenever the two markers are equal and
\* not zero, gps_fd in the segment is SHM_PSEUDO_FD and not the descriptor
\* the daemon passed, and every other field of the payload is the one passed
\* to the publish with that tick; within a publish the store to gps_fd has
\* exactly one marker store before it, and the second marker store comes
\* after it.
PublishedDescriptor ==
    /\ (seg.bookend1 = seg.bookend2 /\ seg.bookend1 >= 1)
       => /\ seg.gpsdata[0] = SHM_PSEUDO_FD
          /\ seg.gpsdata[0] # PassedTo(seg.bookend1)[0]
          /\ \A f \in Fields \ {0} :
                seg.gpsdata[f] = PassedTo(seg.bookend1)[f]
    /\ \A i \in 1..Len(stores) :
          stores[i] = "gps_fd"
          => Cardinality({j \in MarkerAt : j < i}) = 1
    /\ Cardinality(MarkerAt) = 2
       => \E i \in 1..Len(stores) : stores[i] = "gps_fd"

PublishedDescriptorWitness ==
    /\ seg.bookend1 = 2 /\ seg.bookend2 = 2 /\ ppc = 0
    /\ parg[0] = DaemonFd /\ seg.gpsdata[0] = SHM_PSEUDO_FD
    /\ Cardinality(MarkerAt) = 2


\* ================================================================ release

\* shm_acquire on the context: shmget, shmat, and the two fields it sets
rel_shm_acquire ==
    /\ rel_alive /\ rel_shmexport = NULL /\ rel_calls = 0
    /\ \E getok \in BOOLEAN, atok \in BOOLEAN :
         LET id == ShmGet(0, getok) IN
         IF id # -1 /\ atok
         THEN /\ rel_shmexport' = ATTACHED
              /\ rel_shmid' = id
              /\ rel_mapped' = TRUE
         ELSE UNCHANGED <<rel_shmexport, rel_shmid, rel_mapped>>
    /\ UNCHANGED <<rel_removed, rel_ops, rel_stores, rel_updates, rel_calls,
                   rel_alive>>
    /\ UNCHANGED nonrel

\* shm_update on the context: behind the NULL test it stores through
\* context->shmexport; when the segment is no longer attached the stores go
\* to whatever the address holds by then, or the process is killed
rel_shm_update ==
    /\ rel_alive /\ rel_updates < MaxCalls
    /\ rel_updates' = rel_updates + 1
    /\ IF UpdateGuard(rel_shmexport) /\ ~rel_mapped
       THEN \/ rel_stores' = rel_stores + 1 /\ UNCHANGED rel_alive
            \/ rel_alive' = FALSE /\ UNCHANGED rel_stores
       ELSE UNCHANGED <<rel_stores, rel_alive>>
    /\ UNCHANGED <<rel_shmexport, rel_shmid, rel_mapped, rel_removed, rel_ops,
                   rel_calls>>
    /\ UNCHANGED nonrel

\* shm_release: nothing for a NULL shmexport, else shmctl(IPC_RMID) and
\* shmdt, their failures logged; no field of the context is assigned
shm_release ==
    /\ rel_alive /\ rel_calls < MaxReleases
    /\ rel_calls' = rel_calls + 1
    /\ IF NULL = rel_shmexport
       THEN UNCHANGED <<rel_ops, rel_removed, rel_mapped>>
       ELSE \E rmid \in {-1, 0} :
              /\ rel_ops' = rel_ops
                    \o <<Call("shmctl", rmid),
                         Call("shmdt", IF rel_mapped THEN 0 ELSE -1)>>
              /\ rel_removed' = (rel_removed \/ rmid = 0)
              /\ rel_mapped' = FALSE
    /\ UNCHANGED <<rel_shmexport, rel_shmid, rel_stores, rel_updates, rel_alive>>
    /\ UNCHANGED nonrel

InitRelease ==
    /\ ShmInit /\ CtlIdle /\ RegIdle /\ ParseIdle /\ BarIdle /\ ClientIdle
    /\ RelIdle

NextRelease ==
    \/ rel_shm_acquire
    \/ rel_shm_update
    \/ shm_release

SpecRelease == InitRelease /\ [][NextRelease]_vars

\* C35 (release ends access): once shm_release has returned the context
\* refers to no segment, so no later shm_update stores anything or is killed
\* for trying, and the system calls of shm_release are those of its first
\* call on an attached context: one removal and one detach, none at all
\* when the context never attached.
ReleaseEndsAccess ==
    /\ rel_calls >= 1 => rel_shmexport = NULL
    /\ rel_stores = 0 /\ rel_alive
    /\ Len(rel_ops) <= 2
    /\ rel_shmid = -1 => rel_ops = <<>>


\* C36 (permission change needs a successful stat): every chmod the tool
\* makes comes right after a stat of the path that succeeded, so the mode it
\* passes is built from a mode stat has filled in.
StatGuardsChmod ==
    \A i \in OpsNamed("chmod") :
        i > 1 /\ ops[i - 1] = Call("stat", 0)

\* C37 (acknowledgement is ignored): the step that reads the acknowledgement
\* changes neither the status gpsd_control returns nor what was sent, and a
\* run that has read, whatever the read gave (data, nothing, an error, the
\* first 12 bytes of a longer answer), returns the result of its write and
\* exits with success exactly when the write did not fail.
AcknowledgementIgnored ==
    /\ [][cpc = "read" => UNCHANGED <<status, exitcode, sent, connect>>]_vars
    /\ [](\A i \in OpsNamed("read") :
            /\ i > 1 /\ ops[i - 1].call = "write"
            /\ status = ops[i - 1].rc
            /\ cpc = "done"
               => (exitcode = EXIT_SUCCESS <=> ops[i - 1].rc >= 0))

\* an add whose acknowledgement read failed and that ended in success
AcknowledgementIgnoredWitness ==
    /\ cpc = "done" /\ argv1 = "add" /\ exitcode = EXIT_SUCCESS
    /\ \E i \in OpsNamed("read") : ops[i].rc = -1

\* C38 (non-empty server and port): after a call of gpsd_source_spec, on
\* whatever string, the server and the port are not the empty string.
NonEmptyServerPort ==
    ncalls >= 1 => (Server # "" /\ Port # "")

====
